---- MODULE Spec2Model ----
(***************************************************************************)
(* space-chess: the move/deploy applier, the star-heat rule and the hazard *)
(* subsystem (src/game/applyMove.ts, starHeat.ts, hazards.ts, indexes.ts,  *)
(* geom.ts), driven through the exported entry points applyMove and        *)
(* applyDeploy and through runHazardPhase of main.ts.                      *)
(*                                                                         *)
(* A call is modelled in two steps: the caller chooses the arguments       *)
(* (pending), then the whole function body runs (Return...).  The exit     *)
(* path taken by the body is recorded in ret, the hazard operations it ran *)
(* in log.                                                                 *)
(*                                                                         *)
(* The second half follows main.ts and setup.ts: the destination           *)
(* generators, the candidate actions of the Black AI, winnerIfAny,         *)
(* createInitialState, and (SpecLive) the handlers of the live game: the   *)
(* clicks, the reset key and the two timers of runBlackAIIfNeeded.         *)
(***************************************************************************)
EXTENDS Integers, Sequences, FiniteSets

VARIABLES
  state,               \* the GameState object (main.ts `let state`)
  deployPieceCounter,  \* applyMove.ts module counter for deployed ids
  hazardCounter,       \* hazards.ts module counter for flyer ids
  pc,                  \* "idle" | "called": position of the caller
  pending,             \* arguments of the call in progress
  ret,                 \* exit path of the last completed call
  log,                 \* hazard operations run by the last completed call
  phaseOwed,           \* the delayed hazard phase of main.ts is scheduled
  pieceCounter,        \* setup.ts module counter for the ids of createInitialState
  selected,            \* main.ts `let selected`: the square picked by the first click
  gameOver,            \* main.ts `let gameOver`: "" (null) or the winner
  aiThinking,          \* main.ts `let aiThinking`
  aiToken,             \* main.ts `let aiToken`
  timers,              \* the callbacks handed to window.setTimeout, oldest first
  last                 \* the handler of main.ts that ran last

liveVars == <<pieceCounter, selected, gameOver, aiThinking, aiToken, timers, last>>

vars == <<state, deployPieceCounter, hazardCounter, pc, pending, ret, log, phaseOwed,
          pieceCounter, selected, gameOver, aiThinking, aiToken, timers, last>>

----------------------------------------------------------------------------
(* Program constants *)

ROWS == 10
COLS == 20
EDGE_BAND_DEPTH == 4
beltTop == 2
beltBottom == 7

(* Bounds of the exploration *)
MaxPly == 3          \* committed actions explored after the start position
MaxLivePly == 2      \* plies a human may start in the live game, per position
MaxResets == 1       \* presses of the reset key
StartPly == 2 * 20   \* ply of the start position: even, White to move

Sides == {"W", "B"}
SimModes == {"full", "tickOnly", "none"}

Sq(r, c) == [r |-> r, c |-> c]

Abs(x) == IF x < 0 THEN -x ELSE x
Max(a, b) == IF a > b THEN a ELSE b
Min(a, b) == IF a < b THEN a ELSE b

----------------------------------------------------------------------------
(* geom.ts *)

inBounds(s, rows, cols) == s.r >= 0 /\ s.r < rows /\ s.c >= 0 /\ s.c < cols

sameSq(a, b) == a.r = b.r /\ a.c = b.c

isAdjacent8(a, b) ==
  LET dr == Abs(a.r - b.r)
      dc == Abs(a.c - b.c)
  IN  (dr <= 1 /\ dc <= 1) /\ ~(dr = 0 /\ dc = 0)

(* applyMove.ts *)
isAdjacent(a, b) ==
  Abs(a.r - b.r) <= 1 /\ Abs(a.c - b.c) <= 1 /\ ~(a.r = b.r /\ a.c = b.c)

other(side) == IF side = "W" THEN "B" ELSE "W"

----------------------------------------------------------------------------
(* indexes.ts: each lookup returns the index of the first match, 0 = none *)

FirstIndex(seq, P(_)) ==
  LET hits == {i \in 1..Len(seq) : P(seq[i])}
  IN  IF hits = {} THEN 0 ELSE CHOOSE i \in hits : \A j \in hits : i <= j

pieceAt(st, sq) == FirstIndex(st.pieces, LAMBDA p : p.alive /\ sameSq(p.pos, sq))

staticAt(st, sq) == FirstIndex(st.statics, LAMBDA h : sameSq(h.pos, sq))

flyerAt(st, sq) == FirstIndex(st.flyers, LAMBDA f : f.alive /\ sameSq(f.pos, sq))

(* the compaction left out: dead flyers stay in the list *)
filterAliveKeepsAll(seq) == seq

(* flyers.filter(h => h.alive) *)
RECURSIVE filterAlive(_)
filterAlive(seq) ==
  IF seq = <<>> THEN <<>>
  ELSE IF Head(seq).alive THEN <<Head(seq)>> \o filterAlive(Tail(seq))
       ELSE filterAlive(Tail(seq))

----------------------------------------------------------------------------
(* starHeat.ts *)

starSquare(st) ==
  LET i == FirstIndex(st.statics, LAMBDA h : h.kind = "star")
  IN  IF i = 0 THEN <<>> ELSE <<st.statics[i].pos>>

(* markHeatAfterMove marking nothing *)
markHeatNever(st, movedSide) == st

markHeatAfterMove(st, movedSide) ==
  LET star == starSquare(st)
  IN  IF star = <<>> THEN st
      ELSE [st EXCEPT !.pieces =
              [i \in 1..Len(st.pieces) |->
                 LET p == st.pieces[i]
                 IN  IF p.alive /\ p.side = movedSide /\ isAdjacent8(p.pos, star[1])
                     THEN [p EXCEPT !.heated = TRUE]
                     ELSE p]]

(* resolveHeatAtTurnStart is exported by starHeat.ts; nothing calls it. *)
resolveHeatAtTurnStart(st) ==
  LET star == starSquare(st)
  IN  IF star = <<>> THEN st
      ELSE [st EXCEPT !.pieces =
              [i \in 1..Len(st.pieces) |->
                 LET p == st.pieces[i]
                 IN  IF p.alive /\ p.side = st.sideToMove /\ p.heated
                     THEN [p EXCEPT !.alive = ~isAdjacent8(p.pos, star[1]),
                                    !.heated = FALSE]
                     ELSE p]]

----------------------------------------------------------------------------
(* hazards.ts *)

stepForDir(dir) ==
  CASE dir = "E" -> [dr |-> 0, dc |-> 1]
    [] dir = "W" -> [dr |-> 0, dc |-> -1]
    [] dir = "N" -> [dr |-> -1, dc |-> 0]
    [] dir = "S" -> [dr |-> 1, dc |-> 0]

(* a flyer that advances two squares at a time *)
nextSquareTwoAhead(pos, dir) ==
  LET d == stepForDir(dir) IN Sq(pos.r + 2 * d.dr, pos.c + 2 * d.dc)

nextSquare(pos, dir) ==
  LET d == stepForDir(dir) IN Sq(pos.r + d.dr, pos.c + d.dc)

(* the for-loop of hazardTick leaving a flyer at the border on the board *)
tickOneStopsAtEdge(st, i) ==
  LET hz  == st.flyers[i]
      nxt == nextSquare(hz.pos, hz.dir)
      moved == [st EXCEPT !.flyers[i].pos = nxt]
      p   == pieceAt(moved, nxt)
  IN  IF ~hz.alive THEN st
      ELSE IF ~inBounds(nxt, st.rows, st.cols) THEN st
      ELSE IF staticAt(moved, nxt) # 0
        THEN [moved EXCEPT !.flyers[i].alive = FALSE]
      ELSE IF p # 0
        THEN IF hz.kind = "comet"
             THEN [moved EXCEPT !.pieces[p].alive = FALSE,
                                !.flyers[i].alive = FALSE]
             ELSE [moved EXCEPT !.flyers[i].alive = FALSE,
                                !.manufacturing[moved.pieces[p].side] = @ + 1]
      ELSE moved

(* one iteration of the for-loop of hazardTick, on flyers[i] *)
tickOne(st, i) ==
  LET hz  == st.flyers[i]
      nxt == nextSquare(hz.pos, hz.dir)
      moved == [st EXCEPT !.flyers[i].pos = nxt]
      p   == pieceAt(moved, nxt)
  IN  IF ~hz.alive THEN st
      ELSE IF ~inBounds(nxt, st.rows, st.cols)
        THEN [st EXCEPT !.flyers[i].alive = FALSE]
      ELSE IF staticAt(moved, nxt) # 0
        THEN [moved EXCEPT !.flyers[i].alive = FALSE]
      ELSE IF p # 0
        THEN IF hz.kind = "comet"
             THEN [moved EXCEPT !.pieces[p].alive = FALSE,
                                !.flyers[i].alive = FALSE]
             ELSE [moved EXCEPT !.flyers[i].alive = FALSE,
                                !.manufacturing[moved.pieces[p].side] = @ + 1]
      ELSE moved

RECURSIVE tickLoop(_, _)
tickLoop(st, i) ==
  IF i > Len(st.flyers) THEN st ELSE tickLoop(tickOne(st, i), i + 1)

hazardTick(st) ==
  LET after == tickLoop(st, 1)
  IN  [after EXCEPT !.flyers = filterAlive(after.flyers)]

(* rngSeed is an unsigned 32-bit word, kept as two 16-bit halves *)
SeedStepHi == 40503     \* 0x9e37
SeedStepLo == 31161     \* 0x79b9
Half == 2 ^ 16

(* the two halves advanced separately, the carry dropped *)
advanceSeedNoCarry(seed) ==
  [hi |-> (seed.hi + SeedStepHi) % Half, lo |-> (seed.lo + SeedStepLo) % Half]

advanceSeed(seed) ==
  LET lo == seed.lo + SeedStepLo
  IN  [hi |-> (seed.hi + SeedStepHi + (lo \div Half)) % Half, lo |-> lo % Half]

(* pickEdgeBandColumn; off and fromLeft are its two random draws *)
edgeBandDepth(st) == Max(1, Min(EDGE_BAND_DEPTH, st.cols \div 2))

(* a band that starts one band's depth away from the border *)
pickEdgeBandColumnInset(st, off, fromLeft) ==
  IF fromLeft THEN edgeBandDepth(st) + off ELSE st.cols - 2 * edgeBandDepth(st) + off

pickEdgeBandColumn(st, off, fromLeft) ==
  LET d == edgeBandDepth(st)
  IN  IF fromLeft THEN off ELSE st.cols - d + off

(* a spawn block that puts the new flyer on the board although it met a    *)
(* piece                                                                   *)
spawnFlyerStaysOnPiece(m, kind, pos, dir) ==
  LET st  == m.state
      p   == pieceAt(st, pos)
      hz  == [id |-> m.hazardCounter + 1, kind |-> kind, pos |-> pos, dir |-> dir,
              alive |-> TRUE]
      st1 == IF p = 0 THEN st
             ELSE IF kind = "comet"
                  THEN [st EXCEPT !.pieces[p].alive = FALSE]
                  ELSE [st EXCEPT !.manufacturing[st.pieces[p].side] = @ + 1]
  IN  [m EXCEPT !.state = IF staticAt(st, pos) = 0
                          THEN [st1 EXCEPT !.flyers = Append(@, hz)] ELSE st1,
                !.hazardCounter = m.hazardCounter + 1]

(* One spawn block of maybeSpawnHazards: the new flyer hz meets the square *)
(* it enters on.  m carries state and hazardCounter.                       *)
spawnFlyer(m, kind, pos, dir) ==
  LET st  == m.state
      id  == m.hazardCounter + 1
      p   == pieceAt(st, pos)
      sh  == staticAt(st, pos)
      hz  == [id |-> id, kind |-> kind, pos |-> pos, dir |-> dir, alive |-> TRUE]
      st1 == IF p = 0 THEN st
             ELSE IF kind = "comet"
                  THEN [st EXCEPT !.pieces[p].alive = FALSE]
                  ELSE [st EXCEPT !.manufacturing[st.pieces[p].side] = @ + 1]
      hzAlive == p = 0 /\ sh = 0
  IN  [m EXCEPT !.state = IF hzAlive THEN [st1 EXCEPT !.flyers = Append(@, hz)] ELSE st1,
                !.hazardCounter = id]

(* the three spawn blocks; d holds the outcomes of the random draws *)
spawnCometH(m, d) ==
  IF d.cometH
  THEN spawnFlyer(m, "comet",
                  Sq(d.hRow, IF d.hFromLeft THEN 0 ELSE m.state.cols - 1),
                  IF d.hFromLeft THEN "E" ELSE "W")
  ELSE m

spawnCometV(m, d) ==
  IF d.cometV
  THEN spawnFlyer(m, "comet",
                  Sq(IF d.vFromTop THEN 0 ELSE m.state.rows - 1,
                     pickEdgeBandColumn(m.state, d.vOff, d.vFromLeft)),
                  IF d.vFromTop THEN "S" ELSE "N")
  ELSE m

spawnAsteroidV(m, d) ==
  IF d.asteroidV
  THEN spawnFlyer(m, "asteroid",
                  Sq(IF d.aFromTop THEN 0 ELSE m.state.rows - 1,
                     pickEdgeBandColumn(m.state, d.aOff, d.aFromLeft)),
                  IF d.aFromTop THEN "S" ELSE "N")
  ELSE m

maybeSpawnHazards(m, d) ==
  spawnAsteroidV(
    spawnCometV(
      spawnCometH([m EXCEPT !.state.rngSeed = advanceSeed(@)], d), d), d)

----------------------------------------------------------------------------
(* applyMove.ts *)

(* ids of the mover's side's alive heated pieces when the call starts *)
overheatedIdsAtTurnStart(st) ==
  {st.pieces[i].id : i \in {j \in 1..Len(st.pieces) :
       st.pieces[j].alive /\ st.pieces[j].side = st.sideToMove /\ st.pieces[j].heated}}

(* the burn step without the adjacency test *)
burnWhereverHeated(st, side, overheated) ==
  [st EXCEPT !.pieces =
     [i \in 1..Len(st.pieces) |->
        LET p == st.pieces[i]
        IN  IF p.alive /\ p.side = side /\ p.id \in overheated
            THEN [p EXCEPT !.alive = FALSE]
            ELSE p]]

(* the burn step with the side test inverted *)
burnSkipsOtherSide(st, side, overheated) ==
  LET stars == {st.statics[i].pos : i \in {j \in 1..Len(st.statics) :
                                             st.statics[j].kind = "star"}}
  IN  IF stars = {} THEN st
      ELSE [st EXCEPT !.pieces =
              [i \in 1..Len(st.pieces) |->
                 LET p == st.pieces[i]
                 IN  IF /\ p.alive
                        /\ p.side # side
                        /\ p.id \in overheated
                        /\ \E spos \in stars : isAdjacent(p.pos, spos)
                     THEN [p EXCEPT !.alive = FALSE]
                     ELSE p]]

burnOverheatedPiecesIfStillAdjacentToStar(st, side, overheated) ==
  LET stars == {st.statics[i].pos : i \in {j \in 1..Len(st.statics) :
                                             st.statics[j].kind = "star"}}
  IN  IF stars = {} THEN st
      ELSE [st EXCEPT !.pieces =
              [i \in 1..Len(st.pieces) |->
                 LET p == st.pieces[i]
                 IN  IF /\ p.alive
                        /\ p.side = side
                        /\ p.id \in overheated
                        /\ \E spos \in stars : isAdjacent(p.pos, spos)
                     THEN [p EXCEPT !.alive = FALSE]
                     ELSE p]]

RECURSIVE pathClearFrom(_, _, _, _, _)
pathClearFrom(st, sq, to, dr, dc) ==
  IF sameSq(sq, to) THEN TRUE
  ELSE IF pieceAt(st, sq) # 0 THEN FALSE
  ELSE IF staticAt(st, sq) # 0 THEN FALSE
  ELSE IF flyerAt(st, sq) # 0 THEN FALSE
  ELSE pathClearFrom(st, Sq(sq.r + dr, sq.c + dc), to, dr, dc)

pathClearForSlide(st, from, to, dr, dc) ==
  pathClearFrom(st, Sq(from.r + dr, from.c + dc), to, dr, dc)

isRookMoveLegal(st, from, to) ==
  IF from.r = to.r /\ from.c # to.c
    THEN pathClearForSlide(st, from, to, 0, IF to.c > from.c THEN 1 ELSE -1)
  ELSE IF from.c = to.c /\ from.r # to.r
    THEN pathClearForSlide(st, from, to, IF to.r > from.r THEN 1 ELSE -1, 0)
  ELSE FALSE

isKnightMoveLegal(from, to) ==
  LET dr == Abs(to.r - from.r)
      dc == Abs(to.c - from.c)
  IN  (dr = 2 /\ dc = 1) \/ (dr = 1 /\ dc = 2)

isKingMoveLegal(from, to) ==
  LET dr == Abs(to.r - from.r)
      dc == Abs(to.c - from.c)
  IN  (dr <= 1 /\ dc <= 1) /\ ~(dr = 0 /\ dc = 0)

isBishopMoveLegal(st, from, to) ==
  LET dr == to.r - from.r
      dc == to.c - from.c
  IN  IF dr = 0 \/ dc = 0 THEN FALSE
      ELSE IF Abs(dr) # Abs(dc) THEN FALSE
      ELSE pathClearForSlide(st, from, to,
                             IF dr > 0 THEN 1 ELSE -1, IF dc > 0 THEN 1 ELSE -1)

(* a legality check whose diagonal step is a capture only *)
isPawnMoveLegalCaptureOnly(st, from, to, side) ==
  LET dir       == IF side = "W" THEN -1 ELSE 1
      startRank == IF side = "W" THEN st.rows - 2 ELSE 1
      dr        == to.r - from.r
      dc        == to.c - from.c
      destPiece == pieceAt(st, to)
      mid       == Sq(from.r + dir, from.c)
      oneStep   == dc = 0 /\ dr = dir /\ destPiece = 0
      launch    == dc = 0 /\ ~oneStep /\ from.r = startRank /\ dr = 2 * dir /\ destPiece = 0
  IN  IF oneStep THEN TRUE
      ELSE IF launch THEN pieceAt(st, mid) = 0 /\ staticAt(st, mid) = 0
      ELSE /\ Abs(dc) = 1 /\ dr = dir
           /\ destPiece # 0 /\ st.pieces[destPiece].side # side

isPawnMoveLegal(st, from, to, side) ==
  LET dir       == IF side = "W" THEN -1 ELSE 1
      startRank == IF side = "W" THEN st.rows - 2 ELSE 1
      dr        == to.r - from.r
      dc        == to.c - from.c
      destPiece == pieceAt(st, to)
      hz        == flyerAt(st, to)
      mid       == Sq(from.r + dir, from.c)
      oneStep   == dc = 0 /\ dr = dir /\ destPiece = 0
      launch    == dc = 0 /\ ~oneStep /\ from.r = startRank /\ dr = 2 * dir /\ destPiece = 0
  IN  IF oneStep /\ ((staticAt(st, to) = 0 /\ hz = 0) \/ staticAt(st, to) # 0 \/ hz # 0)
        THEN TRUE
      ELSE IF launch /\ pieceAt(st, mid) # 0 THEN FALSE
      ELSE IF launch /\ staticAt(st, mid) # 0 THEN FALSE
      ELSE IF launch THEN TRUE
      ELSE IF Abs(dc) = 1 /\ dr = dir
        THEN \/ (destPiece # 0 /\ st.pieces[destPiece].side # side)
             \/ staticAt(st, to) # 0
             \/ hz # 0
      ELSE FALSE

isQueenMoveLegal(st, from, to) ==
  isRookMoveLegal(st, from, to) \/ isBishopMoveLegal(st, from, to)

(* m is [state, deployPieceCounter, hazardCounter, log]; d are the random *)
(* draws of the spawn evaluation, used in "full" mode only                 *)
tickStep(m) == [m EXCEPT !.state = hazardTick(@), !.log = Append(@, "tick")]

spawnStep(m, d) == [maybeSpawnHazards(m, d) EXCEPT !.log = Append(@, "spawn")]

(* the turn handed over with ply left as it was *)
turnAdvanceKeepsPly(m) == [m EXCEPT !.state.sideToMove = other(@)]

turnAdvance(m) == [m EXCEPT !.state.sideToMove = other(@), !.state.ply = @ + 1]

(* postMoveHazardsAndTurnAdvance evaluating the spawn before the tick *)
postMoveSpawnThenTick(m, moverSide, simMode, d) ==
  turnAdvance(IF moverSide = "B" /\ simMode = "full" THEN tickStep(spawnStep(m, d))
              ELSE IF moverSide = "B" /\ simMode = "tickOnly" THEN tickStep(m)
              ELSE m)

(* postMoveHazardsAndTurnAdvance counting ply once per round *)
postMoveCountsRounds(m, moverSide, simMode, d) ==
  [(IF moverSide = "B" /\ simMode = "full" THEN spawnStep(tickStep(m), d)
    ELSE IF moverSide = "B" /\ simMode = "tickOnly" THEN tickStep(m)
    ELSE m)
   EXCEPT !.state.sideToMove = other(@),
          !.state.ply = IF moverSide = "B" THEN @ + 1 ELSE @]

(* postMoveHazardsAndTurnAdvance running the hazard phase after every move *)
postMoveHazardsEveryMove(m, moverSide, simMode, d) ==
  turnAdvance(IF simMode = "full" THEN spawnStep(tickStep(m), d)
              ELSE IF simMode = "tickOnly" THEN tickStep(m)
              ELSE m)

postMoveHazardsAndTurnAdvance(m, moverSide, simMode, d) ==
  turnAdvance(IF moverSide = "B" /\ simMode = "full" THEN spawnStep(tickStep(m), d)
              ELSE IF moverSide = "B" /\ simMode = "tickOnly" THEN tickStep(m)
              ELSE m)

(* the piece-type dispatch of applyMove *)
isTypeMoveLegal(st, mover, from, to) ==
  CASE mover.type = "R" -> isRookMoveLegal(st, from, to)
    [] mover.type = "B" -> isBishopMoveLegal(st, from, to)
    [] mover.type = "Q" -> isQueenMoveLegal(st, from, to)
    [] mover.type = "P" -> isPawnMoveLegal(st, from, to, mover.side)
    [] mover.type = "N" -> isKnightMoveLegal(from, to)
    [] mover.type = "K" -> isKingMoveLegal(from, to)
    [] OTHER -> TRUE

(* moveRejection without the friendly-destination return *)
moveRejectionNoFriendlyBlock(st, move) ==
  LET mi == pieceAt(st, move.from)
  IN  IF mi = 0 THEN "noMover"
      ELSE IF st.pieces[mi].side # st.sideToMove THEN "notYourPiece"
      ELSE IF ~inBounds(move.to, st.rows, st.cols) THEN "outOfBounds"
      ELSE IF ~isTypeMoveLegal(st, st.pieces[mi], move.from, move.to) THEN "illegalForType"
      ELSE ""

(* The early returns of applyMove, in the order of the code; "" = accepted *)
moveRejection(st, move) ==
  LET mi == pieceAt(st, move.from)
      di == pieceAt(st, move.to)
  IN  IF mi = 0 THEN "noMover"
      ELSE IF st.pieces[mi].side # st.sideToMove THEN "notYourPiece"
      ELSE IF ~inBounds(move.to, st.rows, st.cols) THEN "outOfBounds"
      ELSE IF di # 0 /\ st.pieces[di].side = st.pieces[mi].side THEN "friendlyDest"
      ELSE IF ~isTypeMoveLegal(st, st.pieces[mi], move.from, move.to) THEN "illegalForType"
      ELSE ""

(* the branches of applyMove after its early returns; mi, di and hi are   *)
(* the mover, the piece and the flyer found on entry (0 = none)            *)
cometCollision(st, mi, hi, to) ==
  [st EXCEPT !.pieces[mi].pos = to,
             !.pieces[mi].alive = FALSE,
             !.flyers = filterAlive([@ EXCEPT ![hi].alive = FALSE])]

(* the asteroid branch without the manufacturing credit *)
collectAsteroidNoCredit(st, mi, hi, to) ==
  IF hi # 0
  THEN [st EXCEPT !.pieces[mi].pos = to,
                  !.flyers = filterAlive([@ EXCEPT ![hi].alive = FALSE])]
  ELSE st

collectAsteroid(st, mi, hi, to) ==
  IF hi # 0
  THEN [st EXCEPT !.pieces[mi].pos = to,
                  !.flyers = filterAlive([@ EXCEPT ![hi].alive = FALSE]),
                  !.manufacturing[st.pieces[mi].side] = @ + 1]
  ELSE st

(* a capture that leaves the enemy piece on the board *)
captureEnemySpares(st, mi, di) == st

captureEnemy(st, mi, di) ==
  IF di # 0 /\ st.pieces[di].side # st.pieces[mi].side
  THEN [st EXCEPT !.pieces[di].alive = FALSE]
  ELSE st

(* the static-hazard branch with a mover that survives the landing *)
staticSuicideSurvives(st, mi, to) ==
  [st EXCEPT !.pieces[mi].pos = to]

staticSuicide(st, mi, to) ==
  [st EXCEPT !.pieces[mi].pos = to, !.pieces[mi].alive = FALSE]

normalMove(st, mi, to) ==
  markHeatAfterMove([st EXCEPT !.pieces[mi].pos = to], st.sideToMove)

(* the state once an asteroid is collected and an enemy captured *)
landed(st, mi, di, hi, to) ==
  captureEnemy(collectAsteroid(st, mi, hi, to), mi, di)

(* the board after the move itself, and the exit path taken *)
resolveMove(st, mi, di, hi, to) ==
  IF hi # 0 /\ st.flyers[hi].kind = "comet"
    THEN [st |-> cometCollision(st, mi, hi, to), ret |-> "cometImpact"]
  ELSE IF staticAt(landed(st, mi, di, hi, to), to) # 0
    THEN [st |-> staticSuicide(landed(st, mi, di, hi, to), mi, to),
          ret |-> "staticSuicide"]
  ELSE [st |-> normalMove(landed(st, mi, di, hi, to), mi, to), ret |-> "moved"]

(* the two calls that end every accepting path *)
finishMove(m, o, side, heat, simMode, d) ==
  [m   |-> postMoveHazardsAndTurnAdvance(
             [m EXCEPT !.state =
                 burnOverheatedPiecesIfStillAdjacentToStar(o.st, side, heat)],
             side, simMode, d),
   ret |-> o.ret]

(* applyMove(state, move, simMode): returns the machine and the exit path *)
applyMove(m, move, simMode, d) ==
  LET st  == m.state
      why == moveRejection(st, move)
      mi  == pieceAt(st, move.from)
  IN  IF why # "" THEN [m |-> m, ret |-> why]
      ELSE finishMove(m,
                      resolveMove(st, mi, pieceAt(st, move.to),
                                  flyerAt(st, move.to), move.to),
                      st.pieces[mi].side, overheatedIdsAtTurnStart(st),
                      simMode, d)

(* DEPLOY_COSTS of main.ts *)
DEPLOY_COSTS == [P |-> 1, N |-> 3, B |-> 3, R |-> 5, Q |-> 9]

(* newDeployedPieceId without the counter increment *)
newDeployedPieceIdStuck(counter, side, type) ==
  [pre |-> <<side, type, "_d">>, n |-> 1]

newDeployedPieceId(counter, side, type) ==
  [pre |-> <<side, type, "_d">>, n |-> counter + 1]

(* deployRejection without the resource check *)
deployRejectionNoResourceCheck(st, to, cost) ==
  IF ~inBounds(to, st.rows, st.cols) THEN "outOfBounds"
  ELSE IF pieceAt(st, to) # 0 THEN "pieceThere"
  ELSE IF staticAt(st, to) # 0 THEN "staticThere"
  ELSE IF flyerAt(st, to) # 0 THEN "flyerThere"
  ELSE ""

(* deployRejection without the occupied-square check *)
deployRejectionNoPieceCheck(st, to, cost) ==
  IF st.manufacturing[st.sideToMove] < cost THEN "cannotAfford"
  ELSE IF ~inBounds(to, st.rows, st.cols) THEN "outOfBounds"
  ELSE IF staticAt(st, to) # 0 THEN "staticThere"
  ELSE IF flyerAt(st, to) # 0 THEN "flyerThere"
  ELSE ""

(* deployRejection with the resource check off by one *)
deployRejectionOneShort(st, to, cost) ==
  IF st.manufacturing[st.sideToMove] < cost - 1 THEN "cannotAfford"
  ELSE IF ~inBounds(to, st.rows, st.cols) THEN "outOfBounds"
  ELSE IF pieceAt(st, to) # 0 THEN "pieceThere"
  ELSE IF staticAt(st, to) # 0 THEN "staticThere"
  ELSE IF flyerAt(st, to) # 0 THEN "flyerThere"
  ELSE ""

(* the early returns of applyDeploy without the static-hazard test *)
deployRejectionOntoStatics(st, to, cost) ==
  IF st.manufacturing[st.sideToMove] < cost THEN "cannotAfford"
  ELSE IF ~inBounds(to, st.rows, st.cols) THEN "outOfBounds"
  ELSE IF pieceAt(st, to) # 0 THEN "pieceThere"
  ELSE IF flyerAt(st, to) # 0 THEN "flyerThere"
  ELSE ""

deployRejection(st, to, cost) ==
  IF st.manufacturing[st.sideToMove] < cost THEN "cannotAfford"
  ELSE IF ~inBounds(to, st.rows, st.cols) THEN "outOfBounds"
  ELSE IF pieceAt(st, to) # 0 THEN "pieceThere"
  ELSE IF staticAt(st, to) # 0 THEN "staticThere"
  ELSE IF flyerAt(st, to) # 0 THEN "flyerThere"
  ELSE ""

applyDeploy(m, to, type, cost, simMode, d) ==
  LET st   == m.state
      side == st.sideToMove
      heat == overheatedIdsAtTurnStart(st)
      why  == deployRejection(st, to, cost)
      piece == [id |-> newDeployedPieceId(m.deployPieceCounter, side, type),
                side |-> side, type |-> type, pos |-> to,
                alive |-> TRUE, heated |-> FALSE]
      spent == [st EXCEPT !.manufacturing[side] = @ - cost,
                          !.pieces = Append(@, piece)]
      done  == burnOverheatedPiecesIfStillAdjacentToStar(
                 markHeatAfterMove(spent, side), side, heat)
  IN  IF why # "" THEN [m |-> m, ret |-> why]
      ELSE [m |-> postMoveHazardsAndTurnAdvance(
                    [m EXCEPT !.state = done,
                              !.deployPieceCounter = @ + 1],
                    side, simMode, d),
            ret |-> "deployed"]

(* main.ts runHazardPhase *)
runHazardPhase(m, d) == spawnStep(tickStep(m), d)

----------------------------------------------------------------------------
(* The start position: a middle-game position of the 10x20 board.  Statics *)
(* lie where createInitialState places them (planets in rows 3..6, columns *)
(* 4..16; the star in rows 4..5, columns 9..10); piece ids are those of    *)
(* createInitialState; captured pieces other than p27 are left out, no     *)
(* operation reads a dead piece.  The white knight landed next to the star *)
(* on White's previous move; the comet entered at (6,0) heading east, the  *)
(* asteroids at (0,2) heading south, in two rounds one after the other.    *)

Pid(n) == [pre |-> <<"p">>, n |-> n]

Piece(n, side, type, r, c, alive, heated) ==
  [id |-> Pid(n), side |-> side, type |-> type, pos |-> Sq(r, c),
   alive |-> alive, heated |-> heated]

StartPieces ==
  << Piece(5,  "W", "K", 9, 10, TRUE, FALSE),
     Piece(2,  "W", "N", 5, 8,  TRUE, TRUE),
     Piece(14, "W", "P", 8, 11, TRUE, FALSE),
     Piece(21, "B", "K", 0, 10, TRUE, FALSE),
     Piece(23, "B", "N", 4, 12, TRUE, FALSE),
     Piece(17, "B", "R", 3, 2,  TRUE, FALSE),
     Piece(27, "B", "P", 7, 9,  FALSE, FALSE) >>

StartStatics ==
  << [kind |-> "planet", pos |-> Sq(3, 6)],
     [kind |-> "planet", pos |-> Sq(5, 14)],
     [kind |-> "planet", pos |-> Sq(6, 16)],
     [kind |-> "star",   pos |-> Sq(4, 9)] >>

StartFlyers ==
  << [id |-> 3, kind |-> "comet",    pos |-> Sq(6, 11), dir |-> "E", alive |-> TRUE],
     [id |-> 5, kind |-> "asteroid", pos |-> Sq(2, 2),  dir |-> "S", alive |-> TRUE],
     [id |-> 6, kind |-> "asteroid", pos |-> Sq(1, 2),  dir |-> "S", alive |-> TRUE] >>

StartState ==
  [rows |-> ROWS, cols |-> COLS, sideToMove |-> "W", ply |-> StartPly,
   pieces |-> StartPieces, statics |-> StartStatics, flyers |-> StartFlyers,
   manufacturing |-> [W |-> 2, B |-> 2],
   rngSeed |-> [hi |-> 65535, lo |-> 50000]]

(* Inputs of the callers *)
OffBoard == Sq(ROWS, 3)

Targets ==
  { Sq(7, 9), Sq(3, 9), Sq(5, 8), Sq(5, 10),      \* away from / next to the star
    Sq(6, 11), Sq(7, 11),                         \* the comet, one step ahead
    Sq(8, 11), Sq(9, 11),                         \* white pawn, next to the king
    Sq(3, 6), Sq(1, 10),                          \* a planet, next to the black king
    Sq(2, 2),                                     \* the asteroid ahead of the black rook
    OffBoard }

DeploySquares == { Sq(9, 9), Sq(9, 10), Sq(5, 10), Sq(3, 6), Sq(6, 11), OffBoard }

DeployOrders == { [type |-> t, cost |-> DEPLOY_COSTS[t]] : t \in {"P", "N"} }

NoSpawn ==
  [cometH |-> FALSE, hRow |-> 6, hFromLeft |-> TRUE,
   cometV |-> FALSE, vOff |-> 2, vFromLeft |-> TRUE, vFromTop |-> TRUE,
   asteroidV |-> FALSE, aOff |-> 3, aFromLeft |-> TRUE, aFromTop |-> FALSE]

(* outcomes of the random draws of one spawn evaluation *)
SpawnDraws ==
  { NoSpawn,
    [NoSpawn EXCEPT !.cometH = TRUE],
    [NoSpawn EXCEPT !.cometV = TRUE],
    [NoSpawn EXCEPT !.asteroidV = TRUE],
    [NoSpawn EXCEPT !.cometH = TRUE, !.cometV = TRUE, !.asteroidV = TRUE] }

(* main.ts: `selected` is null; no handler has run *)
NoSq == OffBoard

(* no timer; `born` records the value of pieceCounter when a timer was set *)
NoTimer == [kind |-> "none", token |-> 0, born |-> 0]

NoHandler == [name |-> "none", timer |-> NoTimer, seed |-> 0]

(* pieces made by one call of createInitialState *)
SetupSize == 4 * 8

NoCall == [op |-> "none", from |-> OffBoard, to |-> OffBoard,
           type |-> "P", cost |-> 0, sim |-> "none"]

Machine == [state |-> state, deployPieceCounter |-> deployPieceCounter,
            hazardCounter |-> hazardCounter, log |-> <<>>]

Init ==
  /\ state = StartState
  /\ deployPieceCounter = 0
  /\ hazardCounter = 6
  /\ pc = "idle"
  /\ pending = NoCall
  /\ ret = "none"
  /\ log = <<>>
  /\ phaseOwed = FALSE
  /\ pieceCounter = SetupSize
  /\ selected = NoSq
  /\ gameOver = ""
  /\ aiThinking = FALSE
  /\ aiToken = StartPly \div 2
  /\ timers = <<>>
  /\ last = NoHandler

alivePositions(st) == {st.pieces[i].pos : i \in {j \in 1..Len(st.pieces) : st.pieces[j].alive}}

(* a caller starts applyMove(state, {from, to}, sim) *)
CallMove ==
  /\ pc = "idle"
  /\ state.ply < StartPly + MaxPly
  /\ \E from \in alivePositions(state) \cup {Sq(7, 9)}, to \in Targets, sim \in SimModes :
       pending' = [NoCall EXCEPT !.op = "move", !.from = from, !.to = to, !.sim = sim]
  /\ pc' = "called"
  /\ UNCHANGED <<state, deployPieceCounter, hazardCounter, ret, log, phaseOwed>>
  /\ UNCHANGED liveVars

(* a caller starts applyDeploy(state, to, type, cost, sim) *)
CallDeploy ==
  /\ pc = "idle"
  /\ state.ply < StartPly + MaxPly
  /\ \E to \in DeploySquares, o \in DeployOrders, sim \in SimModes :
       pending' = [NoCall EXCEPT !.op = "deploy", !.to = to, !.type = o.type,
                                 !.cost = o.cost, !.sim = sim]
  /\ pc' = "called"
  /\ UNCHANGED <<state, deployPieceCounter, hazardCounter, ret, log, phaseOwed>>
  /\ UNCHANGED liveVars

Accepted(r) == r \in {"cometImpact", "staticSuicide", "moved", "deployed"}

(* the spawn draws matter only when the hazard phase runs in full mode *)
DrawsFor(side, sim) == IF side = "B" /\ sim = "full" THEN SpawnDraws ELSE {NoSpawn}

Complete(r) ==
  /\ state' = r.m.state
  /\ deployPieceCounter' = r.m.deployPieceCounter
  /\ hazardCounter' = r.m.hazardCounter
  /\ log' = r.m.log
  /\ ret' = r.ret
  /\ phaseOwed' = IF Accepted(r.ret) /\ state.sideToMove = "B" /\ pending.sim = "none"
                  THEN TRUE ELSE phaseOwed
  /\ pc' = "returned"
  /\ UNCHANGED pending
  /\ UNCHANGED liveVars

(* the body of applyMove runs to its return *)
ReturnMove ==
  /\ pc = "called"
  /\ pending.op = "move"
  /\ \E d \in DrawsFor(state.sideToMove, pending.sim) :
       Complete(applyMove(Machine, [from |-> pending.from, to |-> pending.to],
                          pending.sim, d))

(* the body of applyDeploy runs to its return *)
ReturnDeploy ==
  /\ pc = "called"
  /\ pending.op = "deploy"
  /\ \E d \in DrawsFor(state.sideToMove, pending.sim) :
       Complete(applyDeploy(Machine, pending.to, pending.type, pending.cost,
                            pending.sim, d))

(* main.ts: the delayed hazard phase after Black's action in mode "none" *)
RunHazardPhase ==
  /\ pc = "idle"
  /\ phaseOwed
  /\ \E d \in SpawnDraws :
       LET m == runHazardPhase(Machine, d)
       IN  /\ state' = m.state
           /\ hazardCounter' = m.hazardCounter
           /\ log' = m.log
  /\ phaseOwed' = FALSE
  /\ pending' = [NoCall EXCEPT !.op = "hazardPhase"]
  /\ ret' = "phaseDone"
  /\ pc' = "returned"
  /\ UNCHANGED deployPieceCounter
  /\ UNCHANGED liveVars

(* the caller has control again *)
Resume ==
  /\ pc = "returned"
  /\ pc' = "idle"
  /\ pending' = NoCall
  /\ ret' = "none"
  /\ log' = <<>>
  /\ UNCHANGED <<state, deployPieceCounter, hazardCounter, phaseOwed>>
  /\ UNCHANGED liveVars

Next == CallMove \/ CallDeploy \/ ReturnMove \/ ReturnDeploy \/ RunHazardPhase \/ Resume

Spec == Init /\ [][Next]_vars

TypeOK ==
  /\ pc \in {"idle", "called", "returned"}
  /\ state.sideToMove \in Sides
  /\ state.ply \in StartPly..(StartPly + MaxPly)

----------------------------------------------------------------------------
(* Vocabulary of the properties.  A step from pc = "called" to "returned"  *)
(* is one whole run of applyMove or applyDeploy: the unprimed variables    *)
(* are the state before the call, the primed ones the state after it.      *)

MoveCall   == pc = "called" /\ pending.op = "move"
DeployCall == pc = "called" /\ pending.op = "deploy"

aliveAt(st, sq) == {i \in 1..Len(st.pieces) : st.pieces[i].alive /\ st.pieces[i].pos = sq}

theStar(st) == st.statics[CHOOSE i \in 1..Len(st.statics) : st.statics[i].kind = "star"].pos

nextToStar(st, sq) == Abs(sq.r - theStar(st).r) <= 1 /\ Abs(sq.c - theStar(st).c) <= 1
                        /\ sq # theStar(st)

(* the four conditions under which a move is illegal, as the contract words them *)
illegalMove(st, call) ==
  LET src == {i \in aliveAt(st, call.from) : st.pieces[i].side = st.sideToMove}
  IN  \/ src = {}
      \/ ~inBounds(call.to, ROWS, COLS)
      \/ \E j \in aliveAt(st, call.to) : st.pieces[j].side = st.sideToMove
      \/ \E i \in src : ~isTypeMoveLegal(st, st.pieces[i], call.from, call.to)

(* the conditions under which a deploy is illegal *)
illegalDeploy(st, call) ==
  \/ st.manufacturing[st.sideToMove] < call.cost
  \/ ~inBounds(call.to, ROWS, COLS)
  \/ aliveAt(st, call.to) # {}
  \/ \E i \in 1..Len(st.statics) : st.statics[i].pos = call.to
  \/ \E i \in 1..Len(st.flyers) : st.flyers[i].alive /\ st.flyers[i].pos = call.to

LegalMoveCall   == MoveCall /\ ~illegalMove(state, pending)
LegalDeployCall == DeployCall /\ ~illegalDeploy(state, pending)
LegalCall       == LegalMoveCall \/ LegalDeployCall

Untouched == state' = state /\ deployPieceCounter' = deployPieceCounter
               /\ hazardCounter' = hazardCounter

----------------------------------------------------------------------------
(* C1: an applyMove call whose source square holds no alive piece of the   *)
(* side to move, whose destination is off the board or holds a friendly    *)
(* alive piece, or which fails the piece-type legality check, leaves the   *)
(* whole GameState unchanged, in every simMode.                            *)
C1_IllegalMoveIsNoOp ==
  [][(MoveCall /\ illegalMove(state, pending)) => Untouched]_vars

C1_Witness ==
  /\ pc = "returned" /\ pending.op = "move"
  /\ ret = "illegalForType"
  /\ pending.sim = "full"
  /\ illegalMove(state, pending)

(* C2: applyDeploy is a no-op when the side to move cannot afford the cost, *)
(* or the square is off the board or holds an alive piece, a static hazard  *)
(* or an alive flyer; cost 3 with a pool of 2 is rejected on every square.  *)
C2_IllegalDeployIsNoOp ==
  [][/\ (DeployCall /\ illegalDeploy(state, pending)) => Untouched
     /\ (DeployCall /\ pending.cost = 3 /\ state.manufacturing[state.sideToMove] = 2)
          => Untouched]_vars

C2_Witness ==
  /\ pc = "returned" /\ pending.op = "deploy"
  /\ pending.cost = 3 /\ state.manufacturing[state.sideToMove] = 2
  /\ pending.to = Sq(9, 9)
  /\ aliveAt(state, pending.to) = {}
  /\ ret = "cannotAfford"

(* C3: every accepted applyMove or applyDeploy, on each exit path and in   *)
(* every simMode, adds exactly 1 to ply and flips sideToMove; ply never    *)
(* decreases.                                                              *)
C3_AcceptedActionAdvancesTurn ==
  [][/\ LegalCall => /\ state'.ply = state.ply + 1
                     /\ state'.sideToMove = other(state.sideToMove)
     /\ state'.ply >= state.ply]_vars

C3_Witness ==
  /\ pc = "returned" /\ ret = "staticSuicide"
  /\ state.ply = StartPly + 2
  /\ state.sideToMove = "W"

(* C4: no two alive pieces stand on the same square and no two static      *)
(* hazards stand on the same square.                                       *)
C4_OnePiecePerSquare ==
  /\ \A i, j \in 1..Len(state.pieces) :
       (i # j /\ state.pieces[i].alive /\ state.pieces[j].alive)
         => state.pieces[i].pos # state.pieces[j].pos
  /\ \A i, j \in 1..Len(state.statics) :
       i # j => state.statics[i].pos # state.statics[j].pos

(* a capture has happened: the captured piece lies dead under the capturer *)
C4_Witness ==
  /\ pc = "returned" /\ ret = "moved"
  /\ aliveAt(state, pending.to) # {}
  /\ \E i \in 1..Len(state.pieces) :
       /\ ~state.pieces[i].alive
       /\ state.pieces[i].id # Pid(27)
       /\ state.pieces[i].pos = pending.to
       /\ state.pieces[i].side = state.sideToMove

(* C5: in simMode "full" an accepted action of Black runs hazardTick once  *)
(* and maybeSpawnHazards once (one spawn evaluation: rngSeed advances one  *)
(* step), and an accepted action of White runs neither.                    *)
C5_HazardPhaseOncePerRound ==
  [][(LegalCall /\ pending.sim = "full") =>
       IF state.sideToMove = "B"
       THEN /\ Len(log') = 2
            /\ {log'[1], log'[2]} = {"tick", "spawn"}
            /\ state'.rngSeed = advanceSeed(state.rngSeed)
       ELSE /\ log' = <<>>
            /\ state'.rngSeed = state.rngSeed
            /\ state'.flyers = filterAlive(
                 [i \in 1..Len(state.flyers) |->
                    [state.flyers[i] EXCEPT !.alive = (state.flyers[i].pos # pending.to)]])]_vars

C5_Witness ==
  /\ pc = "returned" /\ pending.sim = "full" /\ Accepted(ret)
  /\ state.sideToMove = "W"
  /\ Len(log) = 2
  /\ state.ply = StartPly + 2

(* C6 (as claimed): in the hazard phase after Black's action the spawn is *)
(* evaluated before the tick, so a flyer spawned in a round has already    *)
(* been advanced off its entry square when the phase ends.                 *)
onEntrySquare(f) ==
  \/ f.dir = "E" /\ f.pos.c = 0
  \/ f.dir = "W" /\ f.pos.c = COLS - 1
  \/ f.dir = "S" /\ f.pos.r = 0
  \/ f.dir = "N" /\ f.pos.r = ROWS - 1

(* a step that runs the whole hazard phase: Black's accepted full-mode call, *)
(* or runHazardPhase                                                       *)
HazardPhaseStep ==
  \/ LegalCall /\ pending.sim = "full" /\ state.sideToMove = "B"
  \/ pc = "idle" /\ pc' = "returned"

spawnedInStep == {i \in 1..Len(state'.flyers) : state'.flyers[i].id > hazardCounter}

heatedNextToStar(st) ==
  {i \in 1..Len(st.pieces) :
     /\ st.pieces[i].alive /\ st.pieces[i].heated
     /\ st.pieces[i].side = st.sideToMove
     /\ nextToStar(st, st.pieces[i].pos)}

heatedAtTurnStart(st) ==
  {i \in 1..Len(st.pieces) :
     st.pieces[i].alive /\ st.pieces[i].heated /\ st.pieces[i].side = st.sideToMove}

C8_HeatClearedAfterOwnTurn ==
  [][LegalCall =>
       \A i \in heatedAtTurnStart(state) :
         (state'.pieces[i].alive /\ ~nextToStar(state', state'.pieces[i].pos))
           => ~state'.pieces[i].heated]_vars

(* C9: a piece that moves from a square not next to the star onto an empty *)
(* square next to the star, or is deployed there, is alive right after the *)
(* action, whatever its history (calls after which no hazard phase runs).  *)
emptySquare(st, sq) ==
  /\ aliveAt(st, sq) = {}
  /\ \A i \in 1..Len(st.statics) : st.statics[i].pos # sq
  /\ \A i \in 1..Len(st.flyers) : st.flyers[i].pos # sq

C9_LandingNextToStarIsSafe ==
  [][/\ ( /\ LegalMoveCall
          /\ state.sideToMove = "W" \/ pending.sim = "none"
          /\ ~nextToStar(state, pending.from)
          /\ nextToStar(state, pending.to)
          /\ emptySquare(state, pending.to) )
        => \A i \in aliveAt(state, pending.from) : state'.pieces[i].alive
     /\ ( /\ LegalDeployCall
          /\ state.sideToMove = "W" \/ pending.sim = "none"
          /\ nextToStar(state, pending.to) )
        => state'.pieces[Len(state'.pieces)].alive]_vars

(* C10 (as claimed): after a legal move onto a live comet the mover is     *)
(* dead on the destination, the comet is gone from state.flyers, no        *)
(* manufacturing pool has changed and the turn has advanced.               *)
cometAt(st, sq) ==
  {i \in 1..Len(st.flyers) :
     st.flyers[i].alive /\ st.flyers[i].kind = "comet" /\ st.flyers[i].pos = sq}

flyerIds(st) == {st.flyers[i].id : i \in 1..Len(st.flyers)}

CometImpact ==
  /\ \A i \in aliveAt(state, pending.from) :
       ~state'.pieces[i].alive /\ state'.pieces[i].pos = pending.to
  /\ \A k \in cometAt(state, pending.to) : state.flyers[k].id \notin flyerIds(state')
  /\ state'.ply = state.ply + 1
  /\ state'.sideToMove = other(state.sideToMove)

C10_CometImpactLeavesPools ==
  [][(LegalMoveCall /\ cometAt(state, pending.to) # {}) =>
       (CometImpact /\ state'.manufacturing = state.manufacturing)]_vars

(* C10 (amended): ... the mover is dead on the destination, the comet is   *)
(* gone and the turn has advanced; the impact itself changes no pool: the  *)
(* pools are unchanged when the call runs no hazard tick (White's move, or *)
(* simMode none), and otherwise no pool has decreased.                     *)
C10_CometImpact ==
  [][(LegalMoveCall /\ cometAt(state, pending.to) # {}) =>
       /\ CometImpact
       /\ (state.sideToMove = "W" \/ pending.sim = "none")
            => state'.manufacturing = state.manufacturing
       /\ \A sd \in Sides : state'.manufacturing[sd] >= state.manufacturing[sd]]_vars

(* the home-rank pawn has double-stepped onto the comet two squares ahead *)
C10_Witness ==
  /\ pc = "returned" /\ ret = "cometImpact"
  /\ pending.from = Sq(8, 11) /\ pending.to = Sq(6, 11)
  /\ \E i \in 1..Len(state.pieces) :
       /\ state.pieces[i].id = Pid(14) /\ state.pieces[i].type = "P"
       /\ ~state.pieces[i].alive /\ state.pieces[i].pos = Sq(6, 11)
  /\ 3 \notin flyerIds(state)

----------------------------------------------------------------------------
asteroidAt(st, sq) ==
  {k \in 1..Len(st.flyers) :
     st.flyers[k].alive /\ st.flyers[k].kind = "asteroid" /\ st.flyers[k].pos = sq}

staticsAt(st, sq) == {i \in 1..Len(st.statics) : st.statics[i].pos = sq}

AsteroidCall ==
  /\ LegalMoveCall
  /\ asteroidAt(state, pending.to) # {}
  /\ staticsAt(state, pending.to) = {}

(* the part of the asteroid branch that holds on every path *)
AsteroidTaken ==
  /\ \A i \in aliveAt(state, pending.from) : state'.pieces[i].pos = pending.to
  /\ \A k \in asteroidAt(state, pending.to) : state.flyers[k].id \notin flyerIds(state')
  /\ state'.ply = state.ply + 1
  /\ state'.sideToMove = other(state.sideToMove)

(* C11: a legal move onto a live asteroid (no static there) leaves the     *)
(* mover alive on the destination, removes the asteroid, adds exactly 1 to *)
(* the mover's pool, leaves the other pool unchanged and advances the turn. *)
C11_AsteroidCollected ==
  [][AsteroidCall =>
       /\ AsteroidTaken
       /\ \A i \in aliveAt(state, pending.from) : state'.pieces[i].alive
       /\ state'.manufacturing[state.sideToMove]
            = state.manufacturing[state.sideToMove] + 1
       /\ state'.manufacturing[other(state.sideToMove)]
            = state.manufacturing[other(state.sideToMove)]]_vars

(* C11 (amended): the mover stands on the destination, the asteroid is     *)
(* gone and the turn has advanced.  When the call runs no hazard tick      *)
(* (White's move, or simMode none) the mover's pool has grown by exactly 1 *)
(* and the other pool is unchanged, and the mover is alive unless it was   *)
(* heated next to the star and landed next to the star; after a hazard     *)
(* tick in the same call the mover's pool has grown by at least 1 and the  *)
(* other pool has not decreased.                                           *)
C11_AsteroidCollectedBeforeTick ==
  [][AsteroidCall =>
       /\ AsteroidTaken
       /\ (state.sideToMove = "W" \/ pending.sim = "none") =>
            /\ state'.manufacturing[state.sideToMove]
                 = state.manufacturing[state.sideToMove] + 1
            /\ state'.manufacturing[other(state.sideToMove)]
                 = state.manufacturing[other(state.sideToMove)]
            /\ \A i \in aliveAt(state, pending.from) :
                 state'.pieces[i].alive
                   \/ (state.pieces[i].heated /\ nextToStar(state, pending.to))
       /\ state'.manufacturing[state.sideToMove]
            >= state.manufacturing[state.sideToMove] + 1
       /\ state'.manufacturing[other(state.sideToMove)]
            >= state.manufacturing[other(state.sideToMove)]]_vars

(* the black rook has taken the asteroid one square ahead of it *)
C11_Witness ==
  /\ pc = "returned" /\ ret = "moved" /\ pending.sim = "none"
  /\ pending.from = Sq(3, 2) /\ pending.to = Sq(2, 2)
  /\ \E i \in 1..Len(state.pieces) :
       /\ state.pieces[i].id = Pid(17) /\ state.pieces[i].alive
       /\ state.pieces[i].pos = Sq(2, 2)
  /\ 5 \notin flyerIds(state)
  /\ state.manufacturing = [W |-> 2, B |-> 3]

----------------------------------------------------------------------------
(* C12: a legal move onto a static hazard square leaves the mover dead on  *)
(* that square and advances the turn; no step of any operation changes     *)
(* state.statics.                                                          *)
C12_StaticSuicide ==
  [][/\ (LegalMoveCall /\ staticsAt(state, pending.to) # {}) =>
          /\ \A i \in aliveAt(state, pending.from) :
               ~state'.pieces[i].alive /\ state'.pieces[i].pos = pending.to
          /\ state'.ply = state.ply + 1
          /\ state'.sideToMove = other(state.sideToMove)
     /\ state'.statics = state.statics]_vars

(* the black rook has run along its rank into the planet at (3,6) *)
C12_Witness ==
  /\ pc = "returned" /\ ret = "staticSuicide"
  /\ pending.from = Sq(3, 2) /\ pending.to = Sq(3, 6)
  /\ \E i \in 1..Len(state.pieces) :
       /\ state.pieces[i].id = Pid(17) /\ ~state.pieces[i].alive
       /\ state.pieces[i].pos = Sq(3, 6)
  /\ state.statics = StartStatics

----------------------------------------------------------------------------
(* main.ts: the destination generators.  Each returns the squares of its   *)
(* result array as a set.                                                  *)

RookDirs ==
  { [dr |-> -1, dc |-> 0], [dr |-> 1, dc |-> 0], [dr |-> 0, dc |-> -1], [dr |-> 0, dc |-> 1] }

BishopDirs ==
  { [dr |-> -1, dc |-> -1], [dr |-> -1, dc |-> 1], [dr |-> 1, dc |-> -1], [dr |-> 1, dc |-> 1] }

QueenDirs == RookDirs \cup BishopDirs

(* the while-loop of slideLegalDests that never stops at a static hazard *)
RECURSIVE slideRayThroughStatics(_, _, _, _)
slideRayThroughStatics(st, r, c, d) ==
  IF ~(r >= 0 /\ r < ROWS /\ c >= 0 /\ c < COLS) THEN {}
  ELSE IF flyerAt(st, Sq(r, c)) # 0 THEN {Sq(r, c)}
  ELSE IF pieceAt(st, Sq(r, c)) # 0
    THEN IF st.pieces[pieceAt(st, Sq(r, c))].side # st.sideToMove THEN {Sq(r, c)} ELSE {}
  ELSE {Sq(r, c)} \cup slideRayThroughStatics(st, r + d.dr, c + d.dc, d)

(* the while-loop of slideLegalDests for one direction, entered at (r, c) *)
RECURSIVE slideRay(_, _, _, _)
slideRay(st, r, c, d) ==
  IF ~(r >= 0 /\ r < ROWS /\ c >= 0 /\ c < COLS) THEN {}
  ELSE IF staticAt(st, Sq(r, c)) # 0 THEN {Sq(r, c)}
  ELSE IF flyerAt(st, Sq(r, c)) # 0 THEN {Sq(r, c)}
  ELSE IF pieceAt(st, Sq(r, c)) # 0
    THEN IF st.pieces[pieceAt(st, Sq(r, c))].side # st.sideToMove THEN {Sq(r, c)} ELSE {}
  ELSE {Sq(r, c)} \cup slideRay(st, r + d.dr, c + d.dc, d)

slideLegalDests(st, from, dirs) ==
  UNION { slideRay(st, from.r + d.dr, from.c + d.dc, d) : d \in dirs }

(* a generator whose launch a flyer on the intervening square blocks *)
pawnLegalDestsFlyerBlocks(st, from, side) ==
  LET dir       == IF side = "W" THEN -1 ELSE 1
      startRank == IF side = "W" THEN ROWS - 2 ELSE 1
      one       == Sq(from.r + dir, from.c)
      two       == Sq(from.r + 2 * dir, from.c)
      oneOk     == one.r >= 0 /\ one.r < ROWS /\ pieceAt(st, one) = 0
      twoOk     == /\ oneOk
                   /\ from.r = startRank /\ two.r >= 0 /\ two.r < ROWS
                   /\ staticAt(st, one) = 0 /\ flyerAt(st, one) = 0
                   /\ pieceAt(st, two) = 0
      diags     == { Sq(from.r + dir, from.c + dc) : dc \in {-1, 1} }
  IN  (IF oneOk THEN {one} ELSE {})
        \cup (IF twoOk THEN {two} ELSE {})
        \cup { g \in diags : /\ ~(g.r < 0 \/ g.r >= ROWS \/ g.c < 0 \/ g.c >= COLS)
                              /\ pieceAt(st, g) # 0
                              /\ st.pieces[pieceAt(st, g)].side # side }

pawnLegalDests(st, from, side) ==
  LET dir       == IF side = "W" THEN -1 ELSE 1
      startRank == IF side = "W" THEN ROWS - 2 ELSE 1
      one       == Sq(from.r + dir, from.c)
      two       == Sq(from.r + 2 * dir, from.c)
      oneOk     == one.r >= 0 /\ one.r < ROWS /\ pieceAt(st, one) = 0
      twoOk     == /\ oneOk
                   /\ from.r = startRank /\ two.r >= 0 /\ two.r < ROWS
                   /\ pieceAt(st, one) = 0 /\ staticAt(st, one) = 0
                   /\ pieceAt(st, two) = 0
      diags     == { Sq(from.r + dir, from.c + dc) : dc \in {-1, 1} }
  IN  (IF oneOk THEN {one} ELSE {})
        \cup (IF twoOk THEN {two} ELSE {})
        \cup { g \in diags : /\ ~(g.r < 0 \/ g.r >= ROWS \/ g.c < 0 \/ g.c >= COLS)
                              /\ pieceAt(st, g) # 0
                              /\ st.pieces[pieceAt(st, g)].side # side }

knightLegalDests(st, from) ==
  LET deltas == { [dr |-> -2, dc |-> -1], [dr |-> -2, dc |-> 1],
                  [dr |-> -1, dc |-> -2], [dr |-> -1, dc |-> 2],
                  [dr |-> 1, dc |-> -2],  [dr |-> 1, dc |-> 2],
                  [dr |-> 2, dc |-> -1],  [dr |-> 2, dc |-> 1] }
  IN  { sq \in { Sq(from.r + d.dr, from.c + d.dc) : d \in deltas } :
          /\ ~(sq.r < 0 \/ sq.r >= ROWS \/ sq.c < 0 \/ sq.c >= COLS)
          /\ ~(pieceAt(st, sq) # 0 /\ st.pieces[pieceAt(st, sq)].side = st.sideToMove) }

(* kingLegalDests without the friendly-piece test *)
kingLegalDestsOntoFriends(st, from) ==
  { sq \in { Sq(from.r + dr, from.c + dc) : dr \in -1..1, dc \in -1..1 } :
      /\ sq # from
      /\ ~(sq.r < 0 \/ sq.r >= ROWS \/ sq.c < 0 \/ sq.c >= COLS) }

kingLegalDests(st, from) ==
  { sq \in { Sq(from.r + dr, from.c + dc) : dr \in -1..1, dc \in -1..1 } :
      /\ sq # from
      /\ ~(sq.r < 0 \/ sq.r >= ROWS \/ sq.c < 0 \/ sq.c >= COLS)
      /\ ~(pieceAt(st, sq) # 0 /\ st.pieces[pieceAt(st, sq)].side = st.sideToMove) }

(* the dispatch on the piece type made by every caller of the generators *)
legalDestsOf(st, p) ==
  CASE p.type = "R" -> slideLegalDests(st, p.pos, RookDirs)
    [] p.type = "B" -> slideLegalDests(st, p.pos, BishopDirs)
    [] p.type = "Q" -> slideLegalDests(st, p.pos, QueenDirs)
    [] p.type = "P" -> pawnLegalDests(st, p.pos, p.side)
    [] p.type = "N" -> knightLegalDests(st, p.pos)
    [] p.type = "K" -> kingLegalDests(st, p.pos)
    [] OTHER -> {}

----------------------------------------------------------------------------
(* Vocabulary of the generator properties: the k-th square of a ray, what  *)
(* stands on a square, and the pieces the side to move may pick up.        *)
rayCell(from, d, k) == Sq(from.r + k * d.dr, from.c + k * d.dc)

liveFlyersAt(st, sq) ==
  {k \in 1..Len(st.flyers) : st.flyers[k].alive /\ st.flyers[k].pos = sq}

hazardOn(st, sq) == staticsAt(st, sq) # {} \/ liveFlyersAt(st, sq) # {}

enemyOn(st, sq, side) == \E i \in aliveAt(st, sq) : st.pieces[i].side # side

(* every square that holds a static hazard, a live flyer or an alive piece *)
occupiedSquares(st) ==
  {st.statics[i].pos : i \in 1..Len(st.statics)}
    \cup {st.flyers[k].pos : k \in {n \in 1..Len(st.flyers) : st.flyers[n].alive}}
    \cup {st.pieces[i].pos : i \in {n \in 1..Len(st.pieces) : st.pieces[n].alive}}

(* the squares of one ray that the contract allows to a slider of `side`,  *)
(* occ being the occupied squares of st                                    *)
rayAllowed(st, occ, from, d, side) ==
  { rayCell(from, d, k) : k \in
      { n \in 1..Max(ROWS, COLS) :
          /\ inBounds(rayCell(from, d, n), ROWS, COLS)
          /\ \A j \in 1..(n - 1) : rayCell(from, d, j) \notin occ
          /\ \/ rayCell(from, d, n) \notin occ
             \/ hazardOn(st, rayCell(from, d, n))
             \/ enemyOn(st, rayCell(from, d, n), side) } }

ownPieces(st) ==
  {i \in 1..Len(st.pieces) : st.pieces[i].alive /\ st.pieces[i].side = st.sideToMove}

(* C13: for the rook, bishop and queen direction sets the generator        *)
(* returns, along each ray, exactly the squares up to and including the    *)
(* first static hazard, live flyer or enemy piece, stops before a friendly *)
(* piece and returns nothing beyond the first occupied square.             *)
C13_SlideDestsStopAtFirstObstacle ==
  [](
    pc = "idle" =>
      LET occ == occupiedSquares(state)
      IN  \A i \in ownPieces(state) : \A dirs \in {RookDirs, BishopDirs, QueenDirs} :
            slideLegalDests(state, state.pieces[i].pos, dirs)
              = UNION { rayAllowed(state, occ, state.pieces[i].pos, d, state.sideToMove) :
                          d \in dirs }
  )

(* the black rook at (3,2) with the planet four squares along its rank: the *)
(* planet square is a destination and the square behind it is not          *)
C13_Witness ==
  /\ pc = "idle" /\ state.sideToMove = "B"
  /\ \E i \in ownPieces(state) :
       /\ state.pieces[i].type = "R" /\ state.pieces[i].pos = Sq(3, 2)
       /\ staticsAt(state, Sq(3, 6)) # {}
       /\ Sq(3, 5) \in legalDestsOf(state, state.pieces[i])
       /\ Sq(3, 6) \in legalDestsOf(state, state.pieces[i])
       /\ Sq(3, 7) \notin legalDestsOf(state, state.pieces[i])
       /\ Sq(2, 2) \in legalDestsOf(state, state.pieces[i])
       /\ Sq(1, 2) \notin legalDestsOf(state, state.pieces[i])

----------------------------------------------------------------------------
PieceTypes == {"P", "N", "B", "R", "Q", "K"}

(* the position with piece i being of type t *)
retyped(st, i, t) == [st EXCEPT !.pieces[i].type = t]

(* applyMove called on position st with the machine's counters *)
plyAfterMove(st, from, to, sim) ==
  applyMove([Machine EXCEPT !.state = st], [from |-> from, to |-> to], sim, NoSpawn).m.state.ply

(* C14: every destination that a generator returns for an alive piece of   *)
(* the side to move is accepted by applyMove: none of its early returns is *)
(* taken and the call advances ply.  The early returns are checked for     *)
(* each piece as it is and as each of the six piece types.                 *)
C14_GeneratedMovesAreAccepted ==
  [](
    pc = "idle" =>
      \A i \in ownPieces(state) :
        /\ \A to \in legalDestsOf(state, state.pieces[i]) : \A sim \in SimModes :
             plyAfterMove(state, state.pieces[i].pos, to, sim) = state.ply + 1
        /\ \A t \in PieceTypes :
             LET st == retyped(state, i, t)
             IN  \A to \in legalDestsOf(st, st.pieces[i]) :
                   moveRejection(st, [from |-> st.pieces[i].pos, to |-> to]) = ""
  )

(* Black to move: the knight's generator offers the comet at (6,11) and    *)
(* the planet at (5,14), and the rook's offers the asteroid at (2,2)       *)
C14_Witness ==
  /\ pc = "idle" /\ state.sideToMove = "B"
  /\ \E i \in ownPieces(state) :
       /\ state.pieces[i].type = "N" /\ state.pieces[i].pos = Sq(4, 12)
       /\ cometAt(state, Sq(6, 11)) # {}
       /\ {Sq(6, 11), Sq(5, 14), Sq(5, 10)} \subseteq legalDestsOf(state, state.pieces[i])
       /\ plyAfterMove(state, Sq(4, 12), Sq(6, 11), "full") = state.ply + 1
  /\ \E i \in ownPieces(state) :
       /\ state.pieces[i].type = "R"
       /\ asteroidAt(state, Sq(2, 2)) # {}
       /\ Sq(2, 2) \in legalDestsOf(state, state.pieces[i])

----------------------------------------------------------------------------
(* The live game of main.ts: win detection, the candidate actions of the   *)
(* Black AI, the start position of setup.ts, and the handlers (clicks, the *)
(* reset key, the two timers of runBlackAIIfNeeded).                        *)

isKingAlive(st, side) ==
  \E i \in 1..Len(st.pieces) :
    st.pieces[i].alive /\ st.pieces[i].side = side /\ st.pieces[i].type = "K"

(* winnerIfAny naming the side that lost its king *)
winnerIfAnyNamesLoser(st) ==
  IF isKingAlive(st, "W") /\ isKingAlive(st, "B") THEN ""
  ELSE IF isKingAlive(st, "W") /\ ~isKingAlive(st, "B") THEN "B"
  ELSE IF ~isKingAlive(st, "W") /\ isKingAlive(st, "B") THEN "W"
  ELSE ""

(* "" stands for null *)
winnerIfAny(st) ==
  IF isKingAlive(st, "W") /\ isKingAlive(st, "B") THEN ""
  ELSE IF isKingAlive(st, "W") /\ ~isKingAlive(st, "B") THEN "W"
  ELSE IF ~isKingAlive(st, "W") /\ isKingAlive(st, "B") THEN "B"
  ELSE ""

cloneState(s) ==
  [rows |-> s.rows, cols |-> s.cols, sideToMove |-> s.sideToMove, ply |-> s.ply,
   rngSeed |-> s.rngSeed,
   manufacturing |-> [W |-> s.manufacturing.W, B |-> s.manufacturing.B],
   pieces |-> [i \in 1..Len(s.pieces) |->
                 [id |-> s.pieces[i].id, side |-> s.pieces[i].side,
                  type |-> s.pieces[i].type,
                  pos |-> Sq(s.pieces[i].pos.r, s.pieces[i].pos.c),
                  alive |-> s.pieces[i].alive, heated |-> s.pieces[i].heated]],
   statics |-> [i \in 1..Len(s.statics) |->
                  [kind |-> s.statics[i].kind,
                   pos |-> Sq(s.statics[i].pos.r, s.statics[i].pos.c)]],
   flyers |-> [i \in 1..Len(s.flyers) |->
                 [id |-> s.flyers[i].id, kind |-> s.flyers[i].kind,
                  pos |-> Sq(s.flyers[i].pos.r, s.flyers[i].pos.c),
                  dir |-> s.flyers[i].dir, alive |-> s.flyers[i].alive]]]

MoveAction(from, to) ==
  [kind |-> "move", from |-> from, to |-> to, type |-> "P", cost |-> 0]

DeployAction(to, type, cost) ==
  [kind |-> "deploy", from |-> to, to |-> to, type |-> type, cost |-> cost]

legalMovesForBlack(st) ==
  IF st.sideToMove # "B" THEN {}
  ELSE UNION { { MoveAction(st.pieces[i].pos, to) : to \in legalDestsOf(st, st.pieces[i]) } :
               i \in {j \in 1..Len(st.pieces) :
                        st.pieces[j].alive /\ st.pieces[j].side = "B"} }

(* deploySquaresForBlack without the occupied-square test *)
deploySquaresForBlackOntoPieces(st) ==
  { Sq(0, c) : c \in {k \in 0..(COLS - 1) :
                        /\ staticAt(st, Sq(0, k)) = 0
                        /\ ~(flyerAt(st, Sq(0, k)) # 0
                             /\ st.flyers[flyerAt(st, Sq(0, k))].alive)} }

deploySquaresForBlack(st) ==
  { Sq(0, c) : c \in {k \in 0..(COLS - 1) :
                        /\ pieceAt(st, Sq(0, k)) = 0
                        /\ staticAt(st, Sq(0, k)) = 0
                        /\ ~(flyerAt(st, Sq(0, k)) # 0
                             /\ st.flyers[flyerAt(st, Sq(0, k))].alive)} }

(* pickDeployTypesFor without the filter on the cost *)
pickDeployTypesForAll(mp) == {"Q", "R", "N", "B", "P"}

pickDeployTypesFor(mp) == { t \in {"Q", "R", "N", "B", "P"} : mp >= DEPLOY_COSTS[t] }

(* the sort key of preferredDeploySquares, times 8: |c - g| + 0.25 |c - mid| *)
deployPreference(sq) == 8 * Abs(sq.c - 6) + Abs(2 * sq.c - (COLS - 1))

(* the squares a stable sort puts ahead of sq *)
sortedAhead(squares, sq) ==
  { o \in squares : \/ deployPreference(o) < deployPreference(sq)
                    \/ deployPreference(o) = deployPreference(sq) /\ o.c < sq.c }

preferredDeploySquares(st, squares) ==
  [k \in 1..Cardinality(squares) |->
     CHOOSE sq \in squares : Cardinality(sortedAhead(squares, sq)) = k - 1]

AI_DEPLOY_TOP_K == 8

bestDeploySquares(st) ==
  { preferredDeploySquares(st, deploySquaresForBlack(st))[k] :
      k \in 1..Min(AI_DEPLOY_TOP_K, Cardinality(deploySquaresForBlack(st))) }

deployActionsForBlack(st) ==
  IF pickDeployTypesFor(st.manufacturing.B) = {} THEN {}
  ELSE { DeployAction(sq, t, DEPLOY_COSTS[t]) :
           sq \in bestDeploySquares(st), t \in pickDeployTypesFor(st.manufacturing.B) }

legalActionsForBlack(st) ==
  IF st.sideToMove # "B" THEN {}
  ELSE legalMovesForBlack(st) \cup deployActionsForBlack(st)

(* one candidate applied as chooseBlackAction and the AI timer apply it *)
applyAction(m, a, simMode, d) ==
  IF a.kind = "move"
  THEN applyMove(m, [from |-> a.from, to |-> a.to], simMode, d)
  ELSE applyDeploy(m, a.to, a.type, a.cost, simMode, d)

----------------------------------------------------------------------------
(* C15: whenever Black is to move, every candidate of legalActionsForBlack *)
(* (every generated move and every deploy it proposes) is accepted when it *)
(* is applied in mode tickOnly to a clone of the state, as the AI's        *)
(* look-ahead does: the clone's ply is one higher and White is to move.    *)
C15_CandidatesAreAccepted ==
  [](
    (pc = "idle" /\ state.sideToMove = "B") =>
      \A a \in legalActionsForBlack(state) :
        LET sim == applyAction([Machine EXCEPT !.state = cloneState(state)],
                               a, "tickOnly", NoSpawn).m.state
        IN  sim.ply = state.ply + 1 /\ sim.sideToMove = "W"
  )

(* Black is to move with 3 points: 8 squares for each of pawn, knight and  *)
(* bishop, next to the moves of king, knight and rook                      *)
C15_Witness ==
  /\ pc = "idle"
  /\ state.sideToMove = "B"
  /\ state.manufacturing.B = 3
  /\ Cardinality(deployActionsForBlack(state)) = 3 * AI_DEPLOY_TOP_K
  /\ DeployAction(Sq(0, 9), "N", DEPLOY_COSTS["N"]) \in legalActionsForBlack(state)
  /\ Sq(0, 10) \notin bestDeploySquares(state)
  /\ \E a \in legalMovesForBlack(state) : cometAt(state, a.to) # {}

----------------------------------------------------------------------------
(* Kings of a position, and the position with the alive flag of some of    *)
(* them flipped to false.                                                  *)
kingsOf(st, side) ==
  {i \in 1..Len(st.pieces) : st.pieces[i].type = "K" /\ st.pieces[i].side = side}

aliveKings(st, side) == {i \in kingsOf(st, side) : st.pieces[i].alive}

withKingsDead(st, dead) ==
  [st EXCEPT !.pieces = [i \in 1..Len(st.pieces) |->
                           IF i \in dead THEN [st.pieces[i] EXCEPT !.alive = FALSE]
                           ELSE st.pieces[i]]]

(* C16: winnerIfAny returns none while both sides have an alive King, the  *)
(* other side when exactly one side has no alive King, and none when       *)
(* neither side has one; checked on every reachable position and on each   *)
(* position obtained from it by flipping Kings' alive flags to false.      *)
C16_WinnerIfAny ==
  pc = "idle" =>
    \A dead \in SUBSET (kingsOf(state, "W") \cup kingsOf(state, "B")) :
      LET st == withKingsDead(state, dead)
          w  == aliveKings(st, "W") # {}
          b  == aliveKings(st, "B") # {}
      IN  /\ (w /\ b)   => winnerIfAny(st) = ""
          /\ (w /\ ~b)  => winnerIfAny(st) = "W"
          /\ (~w /\ b)  => winnerIfAny(st) = "B"
          /\ (~w /\ ~b) => winnerIfAny(st) = ""

(* a piece has died and a deployed piece is on the board: both kings are   *)
(* alive, and each of the three flips gives its own answer                 *)
C16_Witness ==
  /\ pc = "idle"
  /\ Len(state.pieces) > Len(StartPieces)
  /\ \E i \in 1..Len(StartPieces) : StartPieces[i].alive /\ ~state.pieces[i].alive
  /\ winnerIfAny(state) = ""
  /\ winnerIfAny(withKingsDead(state, kingsOf(state, "B"))) = "W"
  /\ winnerIfAny(withKingsDead(state, kingsOf(state, "W"))) = "B"
  /\ winnerIfAny(withKingsDead(state, kingsOf(state, "W") \cup kingsOf(state, "B"))) = ""

----------------------------------------------------------------------------
(* C17: no step makes a manufacturing pool negative; a pool gets smaller   *)
(* only in a deploy call of its own side whose (non-negative) cost the     *)
(* pool covered, and then by no more than that cost.                       *)
C17_PoolsNeverNegative ==
  [][\A side \in Sides :
       /\ state.manufacturing[side] >= 0 => state'.manufacturing[side] >= 0
       /\ state'.manufacturing[side] < state.manufacturing[side] =>
            /\ DeployCall
            /\ state.sideToMove = side
            /\ pending.cost >= 0
            /\ state.manufacturing[side] >= pending.cost
            /\ state'.manufacturing[side] >= state.manufacturing[side] - pending.cost]_vars

(* White's second pawn deploy spent the last point of its pool *)
C17_Witness ==
  /\ pc = "returned"
  /\ pending.op = "deploy"
  /\ pending.cost = DEPLOY_COSTS["P"]
  /\ ret = "deployed"
  /\ state.sideToMove = "B"
  /\ state.manufacturing.W = 0

----------------------------------------------------------------------------
(* C18: no step removes or revives a piece: the pieces collection keeps    *)
(* every entry (same id, side and type, at the same index), grows by       *)
(* exactly one entry in an accepted deploy and by none otherwise, a dead   *)
(* piece stays dead, and the ids of one state are pairwise distinct.       *)
C18_PiecesKeptAndDistinct ==
  [][/\ Len(state'.pieces) =
          Len(state.pieces) + (IF DeployCall /\ ret' = "deployed" THEN 1 ELSE 0)
     /\ \A i \in 1..Len(state.pieces) :
          /\ state'.pieces[i].id = state.pieces[i].id
          /\ state'.pieces[i].side = state.pieces[i].side
          /\ state'.pieces[i].type = state.pieces[i].type
          /\ ~state.pieces[i].alive => ~state'.pieces[i].alive
     /\ \A i, j \in 1..Len(state'.pieces) :
          state'.pieces[i].id = state'.pieces[j].id => i = j]_vars

(* two deploys of the same type by White, after a piece has died: both new *)
(* entries are there, next to the captured pawn p27 and the new casualty   *)
C18_Witness ==
  /\ pc = "returned"
  /\ ret = "deployed"
  /\ Len(state.pieces) = Len(StartPieces) + 2
  /\ state.pieces[Len(StartPieces) + 1].type = state.pieces[Len(StartPieces) + 2].type
  /\ state.pieces[Len(StartPieces) + 1].side = state.pieces[Len(StartPieces) + 2].side
  /\ \E i \in 1..Len(StartPieces) : StartPieces[i].alive /\ ~state.pieces[i].alive
  /\ \E i \in 1..Len(StartPieces) : ~StartPieces[i].alive /\ ~state.pieces[i].alive

----------------------------------------------------------------------------
(* setup.ts: createInitialState.  rng.ts is not part of the sources: the   *)
(* generator is a fixed function of the seed, its values are fractions     *)
(* n / RandDenominator; the manufacturing pools start empty.               *)

rFromRank(rank, rows) == rows - rank

backRank == <<"R", "N", "B", "Q", "K", "B", "N", "R">>

startFileIndex == 6

(* the piece made by the k-th call of add *)
initialPiece(k, rows, counter) ==
  [id |-> Pid(counter + k),
   side |-> IF k <= 2 * 8 THEN "W" ELSE "B",
   type |-> IF (k - 1) \div 8 \in {0, 2} THEN backRank[((k - 1) % 8) + 1] ELSE "P",
   pos |-> Sq(rFromRank(<<1, 2, 10, 9>>[((k - 1) \div 8) + 1], rows),
              startFileIndex + ((k - 1) % 8)),
   alive |-> TRUE, heated |-> FALSE]

Seeds == {1, 2}

RandDenominator == 52

(* the values mulberry32(seed) hands out, in order *)
randStream(seed) ==
  IF seed = 1 THEN <<40, 8, 13, 40, 0, 48, 26, 0>>
  ELSE <<13, 20, 13, 20, 26, 32, 0, 4, 0, 0, 26, 26>>

randInt(u, lo, hi) == lo + (u * (hi - lo + 1)) \div RandDenominator

planetBelt == [rankMin |-> 4, rankMax |-> 7, colMin |-> 4, colMax |-> 16]

(* a star belt that reaches the rank next to White's pawns *)
starBeltNextToPawns == [rankMin |-> 3, rankMax |-> 3, colMin |-> 9, colMax |-> 10]

starBelt == [rankMin |-> 5, rankMax |-> 6, colMin |-> 9, colMax |-> 10]

(* placeOne: draw a rank and a column until the square is free *)
RECURSIVE placeOne(_, _, _, _, _)
placeOne(acc, kind, belt, rows, cols) ==
  IF Len(acc.stream) < 2 THEN acc
  ELSE IF Sq(rFromRank(randInt(acc.stream[1], belt.rankMin, belt.rankMax), rows),
             randInt(acc.stream[2], Max(0, belt.colMin), Min(cols - 1, belt.colMax)))
            \in acc.occupied
       THEN placeOne([acc EXCEPT !.stream = Tail(Tail(@))], kind, belt, rows, cols)
       ELSE [stream |-> Tail(Tail(acc.stream)),
             occupied |-> acc.occupied \cup
               {Sq(rFromRank(randInt(acc.stream[1], belt.rankMin, belt.rankMax), rows),
                   randInt(acc.stream[2], Max(0, belt.colMin), Min(cols - 1, belt.colMax)))},
             statics |-> Append(acc.statics,
               [kind |-> kind,
                pos |-> Sq(rFromRank(randInt(acc.stream[1], belt.rankMin, belt.rankMax), rows),
                           randInt(acc.stream[2], Max(0, belt.colMin),
                                   Min(cols - 1, belt.colMax)))])]

placePlanet(acc, rows, cols) == placeOne(acc, "planet", planetBelt, rows, cols)

placeStatics(acc, rows, cols) ==
  placeOne(placePlanet(placePlanet(placePlanet(acc, rows, cols), rows, cols), rows, cols),
           "star", starBelt, rows, cols).statics

(* counter is the value of the module's pieceCounter when the call starts *)
createInitialState(rows, cols, seed, counter) ==
  [rows |-> rows, cols |-> cols, sideToMove |-> "W", ply |-> 0,
   pieces |-> [k \in 1..SetupSize |-> initialPiece(k, rows, counter)],
   statics |-> placeStatics([stream |-> randStream(seed),
                             occupied |-> {initialPiece(k, rows, counter).pos :
                                             k \in 1..SetupSize},
                             statics |-> <<>>], rows, cols),
   flyers |-> <<>>,
   manufacturing |-> [W |-> 0, B |-> 0],
   rngSeed |-> [hi |-> (seed \div Half) % Half, lo |-> seed % Half]]

----------------------------------------------------------------------------
(* main.ts: the handlers of the live game.  Each handler runs to its end   *)
(* before the next one starts.  chooseBlackAction is taken as a choice     *)
(* among the candidates of legalActionsForBlack; its look-ahead applies    *)
(* every deploy candidate to a clone once, and the ones among the best     *)
(* AI_HARD_TOP_N a second time, each drawing an id from deployPieceCounter.*)

AI_HARD_TOP_N == 20

lookAheadPool(st) == Min(AI_HARD_TOP_N, Cardinality(legalActionsForBlack(st)))

lookAheadDeploys(st) ==
  { Cardinality(deployActionsForBlack(st)) + k :
      k \in Max(0, lookAheadPool(st) - Cardinality(legalMovesForBlack(st)))
            .. Min(lookAheadPool(st), Cardinality(deployActionsForBlack(st))) }

Ai == [thinking |-> aiThinking, token |-> aiToken, timers |-> timers]

(* over is the result of the caller's win check *)
runBlackAIIfNeeded(ai, over, st, counter) ==
  IF over # "" \/ st.sideToMove # "B" \/ ai.thinking THEN ai
  ELSE [thinking |-> TRUE, token |-> ai.token + 1,
        timers |-> Append(ai.timers,
                          [kind |-> "ai", token |-> ai.token + 1, born |-> counter])]

SetAi(ai) ==
  /\ aiThinking' = ai.thinking
  /\ aiToken' = ai.token
  /\ timers' = ai.timers

SetMachine(m) ==
  /\ state' = m.state
  /\ deployPieceCounter' = m.deployPieceCounter
  /\ hazardCounter' = m.hazardCounter
  /\ log' = m.log

(* the call has returned r *)
Landed(r) ==
  /\ SetMachine(r.m)
  /\ ret' = r.ret

(* a timer fires when no timer with an earlier deadline is waiting: the AI *)
(* timers wait AI_THINK_MS, the hazard timers the shorter                  *)
(* BLACK_HAZARD_DELAY_MS                                                   *)
CanFire(i) == \A j \in 1..(i - 1) : timers[j].kind = "ai" /\ timers[i].kind = "hazard"

Remove(seq, i) == SubSeq(seq, 1, i - 1) \o SubSeq(seq, i + 1, Len(seq))

(* ply of the endgame position before White's last action *)
EndPly == 2 * 30

LiveBudget ==
  state.ply < (IF state.ply > EndPly THEN EndPly + 1
               ELSE IF state.ply >= StartPly THEN StartPly ELSE 0) + MaxLivePly

(* squares of the board a human clicks: to pick a piece up, to put it down *)
PickClicks == { Sq(5, 8), Sq(8, 11), Sq(9, 10), Sq(3, 2) }

MoveClicks == Targets

DeployClicks == { Sq(ROWS - 1, c) : c \in {9, 10} }

(* first click on the board: pick up a piece of the side to move *)
ClickSelect ==
  /\ gameOver = ""
  /\ selected = NoSq
  /\ LiveBudget
  /\ \E i \in ownPieces(state) :
       /\ state.pieces[i].pos \in PickClicks
       /\ selected' = state.pieces[i].pos
  /\ last' = [NoHandler EXCEPT !.name = "select"]
  /\ UNCHANGED <<state, deployPieceCounter, hazardCounter, pc, pending, ret, log,
                 phaseOwed, pieceCounter, gameOver, aiThinking, aiToken, timers>>

(* second click: applyMove(state, mkMove(selected, sq)), win check, AI *)
ClickMove ==
  /\ gameOver = ""
  /\ selected # NoSq
  /\ LiveBudget
  /\ \E sq \in MoveClicks, d \in DrawsFor(state.sideToMove, "full") :
       Landed(applyMove(Machine, [from |-> selected, to |-> sq], "full", d))
  /\ gameOver' = winnerIfAny(state')
  /\ SetAi(runBlackAIIfNeeded(Ai, winnerIfAny(state'), state', pieceCounter))
  /\ selected' = NoSq
  /\ last' = [NoHandler EXCEPT !.name = "move"]
  /\ UNCHANGED <<pc, pending, phaseOwed, pieceCounter>>

(* the factory click (White to move: it clears the selection) followed by  *)
(* the click on a home-row square with the deploy panel open               *)
ClickDeploy ==
  /\ gameOver = ""
  /\ state.sideToMove = "W"
  /\ LiveBudget
  /\ \E sq \in DeployClicks, o \in DeployOrders :
       Landed(applyDeploy(Machine, sq, o.type, o.cost, "full", NoSpawn))
  /\ gameOver' = (IF state'.sideToMove # "W" THEN winnerIfAny(state') ELSE gameOver)
  /\ SetAi(IF state'.sideToMove # "W"
           THEN runBlackAIIfNeeded(Ai, winnerIfAny(state'), state', pieceCounter)
           ELSE Ai)
  /\ selected' = NoSq
  /\ last' = [NoHandler EXCEPT !.name = "deploy"]
  /\ UNCHANGED <<pc, pending, phaseOwed, pieceCounter>>

(* the callback of the timer set by runBlackAIIfNeeded finds nothing to do *)
AiTimerDiscards(i) ==
  /\ \/ timers[i].token # aiToken
     \/ gameOver # ""
     \/ legalActionsForBlack(state) = {}
  /\ timers' = Remove(timers, i)
  /\ ret' = "aiDiscarded"
  /\ log' = <<>>
  /\ UNCHANGED <<state, deployPieceCounter, hazardCounter, gameOver>>

(* the callback without its test of gameOver *)
AiTimerCommitsWhenOver(i) ==
  /\ timers[i].token = aiToken
  /\ \E a \in legalActionsForBlack(state), n \in lookAheadDeploys(state) :
       Landed(applyAction([Machine EXCEPT !.deployPieceCounter = @ + n],
                          a, "none", NoSpawn))
  /\ gameOver' = winnerIfAny(state')
  /\ timers' = IF winnerIfAny(state') # "" THEN Remove(timers, i)
               ELSE Append(Remove(timers, i),
                           [kind |-> "hazard", token |-> 0, born |-> pieceCounter])

(* the callback applies the chosen action in mode "none" and sets the      *)
(* hazard timer unless the action ended the game                           *)
AiTimerCommits(i) ==
  /\ timers[i].token = aiToken
  /\ gameOver = ""
  /\ \E a \in legalActionsForBlack(state), n \in lookAheadDeploys(state) :
       Landed(applyAction([Machine EXCEPT !.deployPieceCounter = @ + n],
                          a, "none", NoSpawn))
  /\ gameOver' = winnerIfAny(state')
  /\ timers' = IF winnerIfAny(state') # "" THEN Remove(timers, i)
               ELSE Append(Remove(timers, i),
                           [kind |-> "hazard", token |-> 0, born |-> pieceCounter])

AiTimerFires ==
  /\ \E i \in 1..Len(timers) :
       /\ timers[i].kind = "ai"
       /\ CanFire(i)
       /\ AiTimerDiscards(i) \/ AiTimerCommits(i)
       /\ last' = [NoHandler EXCEPT !.name = "aiTimer", !.timer = timers[i]]
  /\ aiThinking' = FALSE
  /\ UNCHANGED <<pc, pending, phaseOwed, pieceCounter, selected, aiToken>>

(* the callback of the inner timer: the delayed hazard phase *)
HazardTimerFires ==
  /\ \E i \in 1..Len(timers) :
       /\ timers[i].kind = "hazard"
       /\ CanFire(i)
       /\ timers' = Remove(timers, i)
       /\ last' = [NoHandler EXCEPT !.name = "hazardTimer", !.timer = timers[i]]
  /\ IF gameOver # ""
     THEN /\ ret' = "phaseSkipped"
          /\ log' = <<>>
          /\ UNCHANGED <<state, deployPieceCounter, hazardCounter, gameOver>>
     ELSE /\ \E d \in SpawnDraws : SetMachine(runHazardPhase(Machine, d))
          /\ ret' = "phaseDone"
          /\ gameOver' = winnerIfAny(state')
  /\ UNCHANGED <<pc, pending, phaseOwed, pieceCounter, selected, aiThinking, aiToken>>

(* the key "r": resetGame(seed) *)
resetGame ==
  /\ pieceCounter < SetupSize * (1 + MaxResets)
  /\ \E seed \in Seeds :
       /\ state' = createInitialState(ROWS, COLS, seed, pieceCounter)
       /\ last' = [NoHandler EXCEPT !.name = "reset", !.seed = seed]
  /\ pieceCounter' = pieceCounter + SetupSize
  /\ selected' = NoSq
  /\ gameOver' = ""
  /\ aiThinking' = FALSE
  /\ aiToken' = 0
  /\ ret' = "none"
  /\ log' = <<>>
  /\ UNCHANGED <<deployPieceCounter, hazardCounter, pc, pending, phaseOwed, timers>>

NextLive ==
  ClickSelect \/ ClickMove \/ ClickDeploy \/ AiTimerFires \/ HazardTimerFires \/ resetGame

(* the live game is followed from the moment main.ts has been loaded, and *)
(* from the start position with Black's pool empty                        *)
InitLive ==
  /\ \/ /\ \E seed \in Seeds : state = createInitialState(ROWS, COLS, seed, 0)
        /\ hazardCounter = 0
        /\ aiToken = 0
     \/ /\ state = [StartState EXCEPT !.manufacturing.B = 0]
        /\ hazardCounter = 6
        /\ aiToken = StartPly \div 2
  /\ deployPieceCounter = 0
  /\ pc = "idle"
  /\ pending = NoCall
  /\ ret = "none"
  /\ log = <<>>
  /\ phaseOwed = FALSE
  /\ pieceCounter = SetupSize
  /\ selected = NoSq
  /\ gameOver = ""
  /\ aiThinking = FALSE
  /\ timers = <<>>
  /\ last = NoHandler

SpecLive == InitLive /\ [][NextLive]_vars

----------------------------------------------------------------------------
(* C19: determinism.  A run that calls createInitialState with a given     *)
(* seed reaches the state that the first run with that seed reached: every *)
(* resetGame(seed) leaves the state that createInitialState(ROWS, COLS,    *)
(* seed) built when the module was loaded, piece ids included.             *)
C19_SameSeedSameState ==
  [][last'.name = "reset" =>
       state' = createInitialState(ROWS, COLS, last'.seed, 0)]_vars

(* C20: a timer set by runBlackAIIfNeeded before a resetGame never applies *)
(* an action to the state, and the decision token never gets smaller.      *)
C20_StaleTimerNeverCommits ==
  [][/\ aiToken' >= aiToken
     /\ (last'.name = "aiTimer" /\ last'.timer.born < pieceCounter) => state' = state]_vars

----------------------------------------------------------------------------
(* Vocabulary of the live-game properties: a White action was applied by   *)
(* the click handler; a hazard timer is waiting.                           *)
WhiteActionApplied ==
  /\ last'.name \in {"move", "deploy"}
  /\ state.sideToMove = "W"
  /\ state'.ply = state.ply + 1

hazardPending(ts) == {i \in 1..Len(ts) : ts[i].kind = "hazard"}

(* C21: in the live game the hazard phase of a round has run before the    *)
(* next White action is applied, and it runs once for the round whose      *)
(* Black action set its timer: no White action is applied while a hazard   *)
(* timer waits, and a hazard timer runs its phase only in the game that    *)
(* set it.                                                                 *)
C21_HazardPhaseBeforeWhiteAction ==
  [][/\ WhiteActionApplied => hazardPending(timers) = {}
     /\ (last'.name = "hazardTimer" /\ ret' = "phaseDone") =>
          last'.timer.born = pieceCounter]_vars

----------------------------------------------------------------------------
(* The look-ahead of chooseBlackAction.  cloneState builds every object of *)
(* the copy anew (the record, manufacturing, each piece, static and flyer  *)
(* and each pos; rngSeed is a number, copied by value): cloneShares is the *)
(* set of fields whose object the copy would share with the original.      *)
cloneSharesPieces == {"pieces"}

cloneShares == {}

(* what a holder of st sees after code has worked on the copy sim *)
seenThrough(st, sim) ==
  [f \in DOMAIN st |-> IF f \in cloneShares THEN sim[f] ELSE st[f]]

(* scoreAfterBlackAction, and the first step of the 2-ply loop: the action *)
(* applied in mode tickOnly to a clone                                     *)
scoreAfterBlackAction(m, a) ==
  applyAction([m EXCEPT !.state = cloneState(m.state)], a, "tickOnly", NoSpawn).m

----------------------------------------------------------------------------
(* The earlier createInitialState (the one that shares a file with the     *)
(* hazard code): planets anywhere on ranks 3..8, the star anywhere on      *)
(* ranks 4..7, all columns.                                                *)
planetBeltWide(cols) == [rankMin |-> 3, rankMax |-> 8, colMin |-> 0, colMax |-> cols - 1]

starBeltWide(cols) == [rankMin |-> 4, rankMax |-> 7, colMin |-> 0, colMax |-> cols - 1]

placeStaticsWide(acc, rows, cols) ==
  placeOne(placeOne(placeOne(placeOne(acc, "planet", planetBeltWide(cols), rows, cols),
                             "planet", planetBeltWide(cols), rows, cols),
                    "planet", planetBeltWide(cols), rows, cols),
           "star", starBeltWide(cols), rows, cols).statics

(* the state is the one a createInitialState call has just returned *)
freshGame == last.name = "reset" \/ (last.name = "none" /\ state.ply = 0)

staticsOfKind(st, kind) == {i \in 1..Len(st.statics) : st.statics[i].kind = kind}

piecesOfSide(st, side) == {i \in 1..Len(st.pieces) : st.pieces[i].side = side}

homeRows(st, side) == IF side = "W" THEN {st.rows - 1, st.rows - 2} ELSE {0, 1}

setupOK(st) ==
  /\ st.sideToMove = "W"
  /\ st.ply = 0
  /\ st.flyers = <<>>
  /\ \A side \in Sides :
       /\ Cardinality(piecesOfSide(st, side)) = 2 * 8
       /\ \A i \in piecesOfSide(st, side) :
            /\ st.pieces[i].alive
            /\ ~st.pieces[i].heated
            /\ st.pieces[i].pos.r \in homeRows(st, side)
            /\ inBounds(st.pieces[i].pos, st.rows, st.cols)
  /\ Cardinality(staticsOfKind(st, "star")) = 1
  /\ Cardinality(staticsOfKind(st, "planet")) = 3
  /\ Len(st.statics) = 4
  /\ \A i \in 1..Len(st.statics) :
       /\ inBounds(st.statics[i].pos, st.rows, st.cols)
       /\ \A k \in 1..Len(st.pieces) : st.pieces[k].pos # st.statics[i].pos
       /\ \A j \in 1..Len(st.statics) :
            j # i => st.statics[j].pos # st.statics[i].pos
  /\ \A i \in staticsOfKind(st, "star"), k \in 1..Len(st.pieces) :
       ~isAdjacent8(st.statics[i].pos, st.pieces[k].pos)

----------------------------------------------------------------------------
(* hazards.ts on its own: hazardTick and maybeSpawnHazards applied to      *)
(* boards of a game in progress.  The boards are the start position with   *)
(* the black rook, the white knight and the third planet on squares the    *)
(* hazards enter on or cross, and with flyers about to land or to leave.   *)
MaxHazardOps == 2

RookSquares == { Sq(3, 2), Sq(0, 2), Sq(5, 0) }

KnightSquares == { Sq(5, 8), Sq(9, 2), Sq(5, 19), Sq(9, 17) }

(* a planet on column 0 or cols-1 is a placement of the all-columns belt *)
PlanetSquares == { Sq(6, 16), Sq(6, 19), Sq(4, 0) }

Flyer(id, kind, r, c, dir) ==
  [id |-> id, kind |-> kind, pos |-> Sq(r, c), dir |-> dir, alive |-> TRUE]

FlyerLists ==
  { StartFlyers,
    \* a comet heading for column cols-1, an asteroid leaving the board, an
    \* asteroid and then a comet landing on the rook's square in one tick
    << Flyer(3, "comet", 6, 18, "E"), Flyer(4, "asteroid", 9, 1, "S"),
       Flyer(5, "asteroid", 2, 2, "S"), Flyer(6, "comet", 3, 1, "E") >>,
    \* the comet lands there first
    << Flyer(3, "comet", 6, 11, "E"), Flyer(4, "comet", 3, 1, "E"),
       Flyer(5, "asteroid", 2, 2, "S"), Flyer(6, "asteroid", 1, 2, "S") >>,
    \* flyers about to reach the edge
    << Flyer(3, "comet", 6, 18, "E"), Flyer(5, "asteroid", 9, 1, "S"),
       Flyer(6, "asteroid", 1, 2, "S") >> }

HzBoards ==
  { [StartState EXCEPT !.pieces[6].pos = rk, !.pieces[2].pos = kn,
                       !.statics[3].pos = pl, !.flyers = fl] :
      rk \in RookSquares, kn \in KnightSquares, pl \in PlanetSquares, fl \in FlyerLists }

(* The values rng() hands to one spawn evaluation, as numerators over     *)
(* RandDenominator: the three chance draws and the draws each block makes  *)
(* when it spawns.                                                         *)
spawnChancePercent == [cometH |-> 35, cometV |-> 20, asteroidV |-> 12]

chance(u, percent) == u * 100 < percent * RandDenominator

coin(u) == u * 2 < RandDenominator

drawsOf(st, raw) ==
  [cometH |-> chance(raw.h, spawnChancePercent.cometH),
   hRow |-> randInt(raw.hRow, beltTop, beltBottom),
   hFromLeft |-> coin(raw.hSide),
   cometV |-> chance(raw.v, spawnChancePercent.cometV),
   vOff |-> randInt(raw.vOff, 0, edgeBandDepth(st) - 1),
   vFromLeft |-> coin(raw.vSide),
   vFromTop |-> coin(raw.vTop),
   asteroidV |-> chance(raw.a, spawnChancePercent.asteroidV),
   aOff |-> randInt(raw.aOff, 0, edgeBandDepth(st) - 1),
   aFromLeft |-> coin(raw.aSide),
   aFromTop |-> coin(raw.aTop)]

NoRaw ==
  [h |-> 51, hRow |-> 0, hSide |-> 0, v |-> 51, vOff |-> 0, vSide |-> 0, vTop |-> 0,
   a |-> 51, aOff |-> 0, aSide |-> 0, aTop |-> 0]

HRaw(raw, row, side) == [raw EXCEPT !.h = 0, !.hRow = row, !.hSide = side]

VRaw(raw, off, side, top) == [raw EXCEPT !.v = 0, !.vOff = off, !.vSide = side, !.vTop = top]

ARaw(raw, off, side, top) == [raw EXCEPT !.a = 0, !.aOff = off, !.aSide = side, !.aTop = top]

RawDraws ==
  { NoRaw,
    HRaw(NoRaw, 26, 0), HRaw(NoRaw, 26, 51),       \* (5, 0) and (5, 19)
    HRaw(NoRaw, 40, 51), HRaw(NoRaw, 25, 0),       \* (6, 19) and (4, 0)
    HRaw(NoRaw, 0, 25), HRaw(NoRaw, 51, 26),       \* (2, 0) and (7, 19)
    VRaw(NoRaw, 26, 0, 0), VRaw(NoRaw, 26, 0, 51), \* (0, 2) and (9, 2)
    VRaw(NoRaw, 51, 25, 26), VRaw(NoRaw, 0, 26, 25), \* (9, 3) and (0, 16)
    ARaw(NoRaw, 25, 51, 51), ARaw(NoRaw, 26, 0, 0), \* (9, 17) and (0, 2)
    ARaw(NoRaw, 26, 0, 51), ARaw(NoRaw, 51, 51, 0), \* (9, 2) and (0, 19)
    ARaw(VRaw(NoRaw, 26, 0, 0), 26, 0, 0),         \* both on (0, 2)
    ARaw(VRaw(HRaw(NoRaw, 26, 0), 26, 0, 51), 25, 51, 51) }

InitHz ==
  /\ state \in HzBoards
  /\ deployPieceCounter = 0
  /\ hazardCounter = 6
  /\ pc = "idle"
  /\ pending = NoCall
  /\ ret = "none"
  /\ log = <<>>
  /\ phaseOwed = FALSE
  /\ pieceCounter = SetupSize
  /\ selected = NoSq
  /\ gameOver = ""
  /\ aiThinking = FALSE
  /\ aiToken = StartPly \div 2
  /\ timers = <<>>
  /\ last = NoHandler

(* log keeps the operations run so far *)
HazardTickStep ==
  /\ Len(log) < MaxHazardOps
  /\ state' = hazardTick(state)
  /\ log' = Append(log, "tick")
  /\ UNCHANGED <<deployPieceCounter, hazardCounter, pc, pending, ret, phaseOwed>>
  /\ UNCHANGED liveVars

SpawnStep ==
  /\ Len(log) < MaxHazardOps
  /\ \E raw \in RawDraws :
       /\ state' = maybeSpawnHazards(Machine, drawsOf(state, raw)).state
       /\ hazardCounter' = maybeSpawnHazards(Machine, drawsOf(state, raw)).hazardCounter
  /\ log' = Append(log, "spawn")
  /\ UNCHANGED <<deployPieceCounter, pc, pending, ret, phaseOwed>>
  /\ UNCHANGED liveVars

NextHz == HazardTickStep \/ SpawnStep

SpecHazards == InitHz /\ [][NextHz]_vars

----------------------------------------------------------------------------
(* Vocabulary of the hazard properties.  In a step of SpecHazards the      *)
(* unprimed state is the board before the operation, the primed one the    *)
(* board after it.                                                         *)
TickRan == log' = Append(log, "tick")

SpawnRan == log' = Append(log, "spawn")

(* the square one step ahead of flyer f *)
oneAhead(f) ==
  CASE f.dir = "N" -> Sq(f.pos.r - 1, f.pos.c)
    [] f.dir = "S" -> Sq(f.pos.r + 1, f.pos.c)
    [] f.dir = "E" -> Sq(f.pos.r, f.pos.c + 1)
    [] f.dir = "W" -> Sq(f.pos.r, f.pos.c - 1)

leavesBoard(st, i) == ~inBounds(oneAhead(st.flyers[i]), st.rows, st.cols)

hitsStatic(st, i) == staticAt(st, oneAhead(st.flyers[i])) # 0

(* a comet earlier in the list lands on the same square in this tick *)
cometLandedBefore(st, i) ==
  \E j \in 1..(i - 1) :
    st.flyers[j].kind = "comet" /\ oneAhead(st.flyers[j]) = oneAhead(st.flyers[i])

(* the alive pieces flyer i lands on *)
piecesHit(st, i) ==
  IF leavesBoard(st, i) \/ hitsStatic(st, i) \/ cometLandedBefore(st, i) THEN {}
  ELSE aliveAt(st, oneAhead(st.flyers[i]))

flyersOfKind(st, kind) == {i \in 1..Len(st.flyers) : st.flyers[i].kind = kind}

keptIn(st, id) == \E k \in 1..Len(st.flyers) : st.flyers[k].id = id

(* C24: a hazardTick moves every flyer one square in its own dir and keeps *)
(* kind, dir and id; a flyer that leaves the board, lands on a static or   *)
(* lands on an alive piece is removed; statics never change; a piece dies  *)
(* exactly when a comet lands on it; each asteroid that lands on an alive  *)
(* piece adds 1 to that piece's side's manufacturing; no piece changes pos.*)
C24_HazardTick ==
  [][TickRan =>
      /\ \A k \in 1..Len(state'.flyers) :
           \E i \in 1..Len(state.flyers) :
             /\ state'.flyers[k] = [state.flyers[i] EXCEPT !.pos = oneAhead(state.flyers[i])]
             /\ state'.flyers[k].alive
      /\ \A i \in 1..Len(state.flyers) :
           keptIn(state', state.flyers[i].id) <=>
             ~(leavesBoard(state, i) \/ hitsStatic(state, i) \/ piecesHit(state, i) # {})
      /\ state'.statics = state.statics
      /\ Len(state'.pieces) = Len(state.pieces)
      /\ \A p \in 1..Len(state.pieces) :
           /\ state'.pieces[p].pos = state.pieces[p].pos
           /\ state'.pieces[p].alive <=>
                /\ state.pieces[p].alive
                /\ ~\E i \in flyersOfKind(state, "comet") : p \in piecesHit(state, i)
      /\ \A side \in Sides :
           state'.manufacturing[side] = state.manufacturing[side] +
             Cardinality({i \in flyersOfKind(state, "asteroid") :
                            \E p \in piecesHit(state, i) : state.pieces[p].side = side})
  ]_vars

(* one tick in which a comet ran into the planet on column cols-1, an      *)
(* asteroid left the board, and an asteroid and then a comet landed on the *)
(* black rook: no flyer is left, the rook is dead, Black's pool grew by 1  *)
C24_Witness ==
  /\ log = <<"tick">>
  /\ state.flyers = <<>>
  /\ staticAt(state, Sq(6, 19)) # 0
  /\ ~state.pieces[6].alive
  /\ state.pieces[6].pos = Sq(3, 2)
  /\ state.manufacturing = [W |-> 2, B |-> 3]

----------------------------------------------------------------------------
(* the flyers of st2 that st does not hold *)
addedFlyers(st, st2) == {k \in 1..Len(st2.flyers) : st2.flyers[k].id \notin flyerIds(st)}

edgeBand(st) == (0..(EDGE_BAND_DEPTH - 1)) \cup ((st.cols - EDGE_BAND_DEPTH)..(st.cols - 1))

----------------------------------------------------------------------------
(* the flyers one spawn evaluation with draws d tries to put on the board, *)
(* in the order of its three blocks                                        *)
spawnAttempts(st, d) ==
  (IF d.cometH
   THEN << [kind |-> "comet", pos |-> Sq(d.hRow, IF d.hFromLeft THEN 0 ELSE st.cols - 1)] >>
   ELSE << >>)
  \o (IF d.cometV
      THEN << [kind |-> "comet",
               pos |-> Sq(IF d.vFromTop THEN 0 ELSE st.rows - 1,
                          IF d.vFromLeft THEN d.vOff
                          ELSE st.cols - EDGE_BAND_DEPTH + d.vOff)] >>
      ELSE << >>)
  \o (IF d.asteroidV
      THEN << [kind |-> "asteroid",
               pos |-> Sq(IF d.aFromTop THEN 0 ELSE st.rows - 1,
                          IF d.aFromLeft THEN d.aOff
                          ELSE st.cols - EDGE_BAND_DEPTH + d.aOff)] >>
      ELSE << >>)

(* the alive pieces attempt t of att finds on its square: those an earlier *)
(* comet of the same evaluation spawned on are dead by then                *)
piecesMet(st, att, t) ==
  IF \E u \in 1..(t - 1) : att[u].kind = "comet" /\ att[u].pos = att[t].pos THEN {}
  ELSE aliveAt(st, att[t].pos)

addedAt(st, st2, kind, pos) ==
  {k \in addedFlyers(st, st2) : st2.flyers[k].kind = kind /\ st2.flyers[k].pos = pos}

spawnOutcomeOK(st, att, st2) ==
  /\ \A t \in 1..Len(att) :
       /\ (piecesMet(st, att, t) # {} /\ att[t].kind = "comet") =>
            /\ \A p \in piecesMet(st, att, t) : ~st2.pieces[p].alive
            /\ addedAt(st, st2, "comet", att[t].pos) = {}
       /\ (piecesMet(st, att, t) # {} /\ att[t].kind = "asteroid") =>
            /\ \A p \in piecesMet(st, att, t) : st2.pieces[p].alive
            /\ addedAt(st, st2, "asteroid", att[t].pos) = {}
       /\ staticAt(st, att[t].pos) # 0 =>
            /\ addedAt(st, st2, att[t].kind, att[t].pos) = {}
            /\ aliveAt(st2, att[t].pos) = aliveAt(st, att[t].pos)
       /\ (piecesMet(st, att, t) = {} /\ staticAt(st, att[t].pos) = 0) =>
            Cardinality(addedAt(st, st2, att[t].kind, att[t].pos)) = 1
  /\ \A side \in Sides :
       st2.manufacturing[side] = st.manufacturing[side] +
         Cardinality({t \in 1..Len(att) :
                        /\ att[t].kind = "asteroid"
                        /\ \E p \in piecesMet(st, att, t) : st.pieces[p].side = side})
  /\ Len(st2.pieces) = Len(st.pieces)
  /\ \A p \in 1..Len(st.pieces) :
       /\ st2.pieces[p].pos = st.pieces[p].pos
       /\ st2.pieces[p].alive <=>
            /\ st.pieces[p].alive
            /\ ~\E t \in 1..Len(att) : att[t].kind = "comet" /\ p \in piecesMet(st, att, t)
  /\ st2.statics = st.statics
  /\ SubSeq(st2.flyers, 1, Len(st.flyers)) = st.flyers
  /\ Cardinality(addedFlyers(st, st2)) = Len(st2.flyers) - Len(st.flyers)

----------------------------------------------------------------------------
(* s2 is (s + 0x9e3779b9) mod 2^32, on the two 16-bit halves of the words: *)
(* 0x9e37 = 40503 and 0x79b9 = 31161                                       *)
seedAdvancedOnce(s, s2) ==
  /\ s2.lo \in 0..(2 ^ 16 - 1)
  /\ s2.hi \in 0..(2 ^ 16 - 1)
  /\ (s.lo + 31161 - s2.lo) % (2 ^ 16) = 0
  /\ (s.hi + 40503 + (IF s.lo + 31161 >= 2 ^ 16 THEN 1 ELSE 0) - s2.hi) % (2 ^ 16) = 0

(* the step runs maybeSpawnHazards: an accepted action of Black applied in *)
(* mode full, or the delayed hazard phase                                  *)
spawnEvaluated ==
  \/ /\ pc = "called"
     /\ state.sideToMove = "B"
     /\ pending.sim = "full"
     /\ state'.ply = state.ply + 1
  \/ pc = "idle" /\ pending'.op = "hazardPhase"

spawnsLogged(l) == Cardinality({i \in 1..Len(l) : l[i] = "spawn"})

(* C27: a step that runs maybeSpawnHazards advances rngSeed by 0x9e3779b9  *)
(* mod 2^32, once, whatever it spawns; every other step (a rejected call,  *)
(* any action of White, an action of Black in mode tickOnly or none)       *)
(* leaves rngSeed as it was.                                               *)
C27_SeedAdvancesOncePerSpawnEvaluation ==
  [][IF spawnEvaluated
     THEN /\ seedAdvancedOnce(state.rngSeed, state'.rngSeed)
          /\ spawnsLogged(log') = 1
     ELSE /\ state'.rngSeed = state.rngSeed
          /\ pc' = "returned" => spawnsLogged(log') = 0
  ]_vars

(* Black's action in mode full spawned three flyers; the seed went from    *)
(* 0xffffc350 to 0x9e373d09, wrapping around                               *)
C27_Witness ==
  /\ pc = "returned"
  /\ pending.sim = "full"
  /\ state.sideToMove = "W"
  /\ log = <<"tick", "spawn">>
  /\ hazardCounter = 6 + 3
  /\ state.rngSeed = [hi |-> 40503, lo |-> 15625]

----------------------------------------------------------------------------
(* Pawn moves on their own: boards with a pawn of the side to move on file *)
(* 11, on its home rank or one row ahead of it, and a planet, a comet, an  *)
(* asteroid, an enemy knight and a friendly knight on or off the squares   *)
(* in front of it; a caller applies one pawn move.                         *)
PawnFile == StartPieces[3].pos.c

pawnIndex(side) == IF side = "W" THEN 3 ELSE 7

knightIndex(side) == IF side = "W" THEN 2 ELSE 5

forward(side) == IF side = "W" THEN -1 ELSE 1

homeRank(side) == IF side = "W" THEN ROWS - 2 ELSE 1

(* the squares ahead of a pawn on row r: one ahead, two ahead, the two     *)
(* diagonals                                                               *)
ahead(side, r) ==
  [mid  |-> Sq(r + forward(side), PawnFile),
   two  |-> Sq(r + 2 * forward(side), PawnFile),
   left |-> Sq(r + forward(side), PawnFile - 1),
   right |-> Sq(r + forward(side), PawnFile + 1)]

(* a planet on row 2 or 7 is a placement of the all-columns, six-rank belt *)
PawnBoard(side, r, planet, comet, asteroid, enemy, friend) ==
  [StartState EXCEPT
     !.sideToMove = side,
     !.ply = IF side = "W" THEN StartPly ELSE StartPly + 1,
     !.pieces[pawnIndex(side)].pos = Sq(r, PawnFile),
     !.pieces[pawnIndex(side)].alive = TRUE,
     !.pieces[knightIndex(other(side))].pos = enemy,
     !.pieces[knightIndex(side)].pos = friend,
     !.statics[3].pos = planet,
     !.flyers[1].pos = comet,
     !.flyers[2].pos = asteroid]

PawnBoardsOf(side, r) ==
  { PawnBoard(side, r, planet, comet, asteroid, enemy, friend) :
              planet \in {Sq(6, 16), ahead(side, r).mid, ahead(side, r).two,
                          ahead(side, r).right},
              \* the last one: a comet one step west of the left diagonal
              comet \in {Sq(6, 13), ahead(side, r).mid, ahead(side, r).two,
                         ahead(side, r).right,
                         Sq(ahead(side, r).left.r, ahead(side, r).left.c - 1)},
              asteroid \in {Sq(2, 2), ahead(side, r).mid, ahead(side, r).left},
              enemy \in {StartPieces[knightIndex(other(side))].pos, ahead(side, r).mid,
                         ahead(side, r).two, ahead(side, r).left},
              friend \in {StartPieces[knightIndex(side)].pos, ahead(side, r).two} }

PawnBoards ==
  UNION { PawnBoardsOf(side, homeRank(side)) \cup
          PawnBoardsOf(side, homeRank(side) + forward(side)) : side \in Sides }

(* on a board of the game no two of a static, a flyer and an alive piece   *)
(* share a square                                                          *)
squaresDistinct(st) ==
  /\ \A i, j \in 1..Len(st.pieces) :
       (i # j /\ st.pieces[i].alive /\ st.pieces[j].alive) => st.pieces[i].pos # st.pieces[j].pos
  /\ \A i \in 1..Len(st.pieces), k \in 1..Len(st.flyers) :
       st.pieces[i].alive => st.pieces[i].pos # st.flyers[k].pos
  /\ \A k \in 1..Len(st.flyers) : staticAt(st, st.flyers[k].pos) = 0
  /\ \A i \in 1..Len(st.pieces) : st.pieces[i].alive => staticAt(st, st.pieces[i].pos) = 0
  /\ \A k, l \in 1..Len(st.flyers) : k # l => st.flyers[k].pos # st.flyers[l].pos

InitPawns ==
  /\ state \in {b \in PawnBoards : squaresDistinct(b)}
  /\ deployPieceCounter = 0
  /\ hazardCounter = 6
  /\ pc = "idle"
  /\ pending = NoCall
  /\ ret = "none"
  /\ log = <<>>
  /\ phaseOwed = FALSE
  /\ pieceCounter = SetupSize
  /\ selected = NoSq
  /\ gameOver = ""
  /\ aiThinking = FALSE
  /\ aiToken = StartPly \div 2
  /\ timers = <<>>
  /\ last = NoHandler

(* applyMove(state, {from: the pawn's square, to}, sim) *)
CallPawnMove ==
  /\ pc = "idle"
  /\ \E to \in {ahead(state.sideToMove, state.pieces[pawnIndex(state.sideToMove)].pos.r)[k] :
                  k \in {"mid", "two", "left", "right"}},
        sim \in SimModes :
       pending' = [NoCall EXCEPT !.op = "move",
                                 !.from = state.pieces[pawnIndex(state.sideToMove)].pos,
                                 !.to = to, !.sim = sim]
  /\ pc' = "called"
  /\ UNCHANGED <<state, deployPieceCounter, hazardCounter, ret, log, phaseOwed>>
  /\ UNCHANGED liveVars

NextPawns == CallPawnMove \/ ReturnMove

SpecPawns == InitPawns /\ [][NextPawns]_vars

----------------------------------------------------------------------------
alivePawns(st) ==
  {i \in 1..Len(st.pieces) :
     st.pieces[i].alive /\ st.pieces[i].type = "P" /\ st.pieces[i].side = st.sideToMove}

twoAhead(p) == Sq(p.pos.r + 2 * forward(p.side), p.pos.c)

oneAheadOf(p) == Sq(p.pos.r + forward(p.side), p.pos.c)

(* C28: for every pawn of the side to move, pawnLegalDests returns the     *)
(* square two ahead exactly when the pawn is on its home rank, the square  *)
(* one ahead holds no alive piece and no static, and the square two ahead  *)
(* holds no alive piece (flyers on either square and a static two ahead do *)
(* not matter); isPawnMoveLegal accepts that move in the same cases.       *)
C28_PawnLaunchOffered ==
  \A i \in alivePawns(state) :
    /\ twoAhead(state.pieces[i]) \in
         pawnLegalDests(state, state.pieces[i].pos, state.pieces[i].side)
       <=> /\ state.pieces[i].pos.r = homeRank(state.pieces[i].side)
           /\ aliveAt(state, oneAheadOf(state.pieces[i])) = {}
           /\ staticAt(state, oneAheadOf(state.pieces[i])) = 0
           /\ aliveAt(state, twoAhead(state.pieces[i])) = {}
    /\ twoAhead(state.pieces[i]) \in
         pawnLegalDests(state, state.pieces[i].pos, state.pieces[i].side)
       <=> isPawnMoveLegal(state, state.pieces[i].pos, twoAhead(state.pieces[i]),
                           state.pieces[i].side)

(* White's pawn on its home rank with the comet one ahead and the planet   *)
(* two ahead: the launch is offered                                        *)
C28_Witness ==
  /\ pc = "idle"
  /\ state.sideToMove = "W"
  /\ state.pieces[3].pos = Sq(ROWS - 2, PawnFile)
  /\ flyerAt(state, Sq(ROWS - 3, PawnFile)) # 0
  /\ staticAt(state, Sq(ROWS - 4, PawnFile)) # 0
  /\ Sq(ROWS - 4, PawnFile) \in pawnLegalDests(state, state.pieces[3].pos, "W")

----------------------------------------------------------------------------
(* the call moves a pawn of the side to move one step diagonally forward   *)
(* onto a square with a static or a live flyer and no alive piece          *)
PawnDiagonalOntoHazard ==
  /\ MoveCall
  /\ \E i \in alivePawns(state) :
       /\ state.pieces[i].pos = pending.from
       /\ pending.to.r = pending.from.r + forward(state.pieces[i].side)
       /\ Abs(pending.to.c - pending.from.c) = 1
  /\ inBounds(pending.to, state.rows, state.cols)
  /\ aliveAt(state, pending.to) = {}
  /\ staticAt(state, pending.to) # 0 \/ flyerAt(state, pending.to) # 0

(* C29: applyMove accepts a pawn's diagonal step onto a static or a live   *)
(* flyer: the turn advances and the pawn ends on that square, dead on a    *)
(* static or a comet, with the asteroid taken and its side's pool at least *)
(* 1 higher on an asteroid; pawnLegalDests does not return that square,    *)
(* and returns a diagonal square only when an alive enemy piece is on it.  *)
C29_DiagonalSuicideAcceptedNotGenerated ==
  [][/\ PawnDiagonalOntoHazard =>
          /\ state'.ply = state.ply + 1
          /\ state'.sideToMove = other(state.sideToMove)
          /\ pending.to \notin pawnLegalDests(state, pending.from, state.sideToMove)
          /\ \A i \in aliveAt(state, pending.from) :
               /\ state'.pieces[i].pos = pending.to
               /\ (staticAt(state, pending.to) # 0 \/ cometAt(state, pending.to) # {})
                    => ~state'.pieces[i].alive
          /\ (staticAt(state, pending.to) = 0 /\ asteroidAt(state, pending.to) # {}) =>
               /\ \A k \in asteroidAt(state, pending.to) :
                    state.flyers[k].id \notin flyerIds(state')
               /\ state'.manufacturing[state.sideToMove]
                    >= state.manufacturing[state.sideToMove] + 1
     /\ \A i \in alivePawns(state) :
          \A g \in pawnLegalDests(state, state.pieces[i].pos, state.pieces[i].side) :
            g.c # state.pieces[i].pos.c =>
              \E j \in aliveAt(state, g) : state.pieces[j].side # state.pieces[i].side
  ]_vars

(* White's pawn has stepped diagonally into the comet and died there *)
C29_Witness ==
  /\ pc = "returned"
  /\ ret = "cometImpact"
  /\ state.sideToMove = "B"
  /\ pending.from.c = PawnFile
  /\ pending.to = Sq(pending.from.r - 1, PawnFile + 1)
  /\ state.pieces[3].pos = pending.to
  /\ ~state.pieces[3].alive

----------------------------------------------------------------------------
(* the call is accepted and its destination holds an alive enemy piece *)
CaptureCall ==
  /\ MoveCall
  /\ enemyOn(state, pending.to, state.sideToMove)
  /\ state'.ply = state.ply + 1

capturedBy(st, call) == {j \in aliveAt(st, call.to) : st.pieces[j].side # st.sideToMove}

(* the flag of piece k may change in this call apart from the capture: it  *)
(* is a heated piece of the mover's side that ends next to the star, or    *)
(* the call is Black's and runs the hazard phase                           *)
mayDieInCall(k) ==
  \/ /\ k \in heatedAtTurnStart(state)
     /\ nextToStar(state', state'.pieces[k].pos)
  \/ state.sideToMove = "B" /\ pending.sim # "none"

captureFrame ==
  /\ \A j \in capturedBy(state, pending) : ~state'.pieces[j].alive
  /\ \A i \in aliveAt(state, pending.from) : state'.pieces[i].pos = pending.to
  /\ \A k \in 1..Len(state.pieces) :
       /\ k \notin aliveAt(state, pending.from) => state'.pieces[k].pos = state.pieces[k].pos
       /\ (k \notin aliveAt(state, pending.from) /\ k \notin capturedBy(state, pending)
           /\ state'.pieces[k].alive # state.pieces[k].alive)
            => state.pieces[k].alive /\ mayDieInCall(k)

(* C30: after an accepted move onto an alive enemy piece, that piece is    *)
(* dead, the mover is alive on the destination, no other piece changed     *)
(* pos, and any other piece whose alive flag changed was burned by the     *)
(* star on the mover's side or died in the hazard phase of Black's action. *)
C30_CaptureFrame ==
  [][CaptureCall =>
       /\ captureFrame
       /\ \A i \in aliveAt(state, pending.from) : state'.pieces[i].alive]_vars

(* C30 (amended): ... the mover is on the destination, alive unless it was *)
(* heated when the call started and the destination is next to the star,   *)
(* or the call is Black's and runs the hazard phase; the rest as above.     *)
C30_CaptureFrameMoverMayDie ==
  [][CaptureCall =>
       /\ captureFrame
       /\ \A i \in aliveAt(state, pending.from) :
            state'.pieces[i].alive \/ mayDieInCall(i)]_vars

(* Black's pawn took the white knight on its left diagonal and the comet   *)
(* ran into it in the hazard phase of the same call                        *)
C30_Witness ==
  /\ pc = "returned"
  /\ ret = "moved"
  /\ state.sideToMove = "W"
  /\ pending.to = Sq(pending.from.r + 1, PawnFile - 1)
  /\ state.pieces[2].pos = pending.to /\ ~state.pieces[2].alive
  /\ state.pieces[7].pos = pending.to /\ ~state.pieces[7].alive
  /\ 3 \notin flyerIds(state)

----------------------------------------------------------------------------
(* main.ts: the static evaluation of the Black AI.  Scores are kept in     *)
(* hundredths, so that every weight of evaluateForBlack (0.25, 0.30, 2.5,  *)
(* 3.0, 0.8, 0.03, 0.08, 0.04) is an integer.  An evaluation returns the   *)
(* score together with the state object as the call leaves it.             *)

pieceValueLocal(t) ==
  CASE t = "P" -> 1
    [] t = "N" -> 3
    [] t = "B" -> 3
    [] t = "R" -> 5
    [] t = "Q" -> 9
    [] t = "K" -> 1000
    [] OTHER -> 0

RECURSIVE sumTo(_, _)
sumTo(f, n) == IF n = 0 THEN 0 ELSE f[n] + sumTo(f, n - 1)

willHazardHitSquare(st, sq) ==
  \E k \in 1..Len(st.flyers) :
    st.flyers[k].alive /\ nextSquare(st.flyers[k].pos, st.flyers[k].dir) = sq

willAnyCometHitSquareNextTick(st, sq) ==
  \E k \in 1..Len(st.flyers) :
    /\ st.flyers[k].alive
    /\ st.flyers[k].kind = "comet"
    /\ nextSquare(st.flyers[k].pos, st.flyers[k].dir) = sq

(* the generators' results summed while state.sideToMove is side *)
mobilityOf(s1, side) ==
  sumTo([i \in 1..Len(s1.pieces) |->
           IF s1.pieces[i].alive /\ s1.pieces[i].side = side
           THEN Cardinality(legalDestsOf(s1, s1.pieces[i])) ELSE 0],
        Len(s1.pieces))

(* countLegalMovesForSide without the final `state.sideToMove = saved` *)
countLegalMovesNoRestore(st, side) ==
  [count |-> mobilityOf([st EXCEPT !.sideToMove = side], side),
   state |-> [st EXCEPT !.sideToMove = side]]

countLegalMovesForSide(st, side) ==
  LET saved == st.sideToMove
      s1    == [st EXCEPT !.sideToMove = side]
  IN  [count |-> mobilityOf(s1, side),
       state |-> [s1 EXCEPT !.sideToMove = saved]]

(* the five loops of evaluateForBlack over state.pieces, for one piece *)
pieceTerms(st, p) ==
  IF ~p.alive THEN 0
  ELSE (IF p.side = "B" THEN 100 * pieceValueLocal(p.type)
                        ELSE - 100 * pieceValueLocal(p.type))
     + (IF p.side = "B" /\ p.heated THEN -25 ELSE 0)
     + (IF p.side = "W" /\ p.heated THEN 25 ELSE 0)
     + (IF p.side = "B" /\ willHazardHitSquare(st, p.pos) THEN -250 ELSE 0)
     + (IF p.side = "B" /\ willAnyCometHitSquareNextTick(st, p.pos) THEN -300 ELSE 0)
     + (IF p.side = "W" /\ willAnyCometHitSquareNextTick(st, p.pos) THEN 80 ELSE 0)
     + (IF p.side = "B" /\ p.type \in {"N", "B", "R", "Q"} /\ p.pos.r = 0 THEN -8 ELSE 0)
     + (IF p.side = "W" /\ p.type \in {"N", "B", "R", "Q"} /\ p.pos.r = st.rows - 1
        THEN 4 ELSE 0)

evaluateForBlack(st) ==
  LET wAlive == isKingAlive(st, "W")
      bAlive == isKingAlive(st, "B")
      mobB   == countLegalMovesForSide(st, "B")
      mobW   == countLegalMovesForSide(mobB.state, "W")
  IN  IF ~bAlive /\ wAlive THEN [score |-> - 100 * 1000000, state |-> st]
      ELSE IF bAlive /\ ~wAlive THEN [score |-> 100 * 1000000, state |-> st]
      ELSE IF ~bAlive /\ ~wAlive THEN [score |-> 0, state |-> st]
      ELSE [score |-> sumTo([i \in 1..Len(st.pieces) |-> pieceTerms(st, st.pieces[i])],
                            Len(st.pieces))
                      + 30 * (st.manufacturing.B - st.manufacturing.W)
                      + 3 * (mobB.count - mobW.count),
            state |-> mobW.state]

(* C32: evaluateForBlack returns +1,000,000 when only Black has an alive   *)
(* King, -1,000,000 when only White has one and 0 when neither has one,    *)
(* whatever the rest of the position; the state it was given is unchanged  *)
(* when it returns, and each mobility count leaves sideToMove as it found  *)
(* it.  Checked on every reachable position and on each position obtained  *)
(* from it by flipping Kings' alive flags to false.                        *)
C32_EvaluateForBlack ==
  pc = "idle" =>
    /\ \A dead \in SUBSET (kingsOf(state, "W") \cup kingsOf(state, "B")) :
         LET st == withKingsDead(state, dead)
             w  == aliveKings(st, "W") # {}
             b  == aliveKings(st, "B") # {}
         IN  /\ (b /\ ~w)  => evaluateForBlack(st).score = 100 * 1000000
             /\ (~b /\ w)  => evaluateForBlack(st).score = - 100 * 1000000
             /\ (~b /\ ~w) => evaluateForBlack(st).score = 0
             /\ evaluateForBlack(st).state = st
    /\ \A side \in Sides : countLegalMovesForSide(state, side).state = state

(* Black is to move with both Kings alive, a heated piece and a flyer one  *)
(* step from a piece on the board: the evaluation counts White's mobility  *)
(* with sideToMove overridden, and its score is far from the terminal ones *)
C32_Witness ==
  /\ pc = "idle"
  /\ state.sideToMove = "B"
  /\ isKingAlive(state, "W") /\ isKingAlive(state, "B")
  /\ \E i \in 1..Len(state.pieces) : state.pieces[i].alive /\ state.pieces[i].heated
  /\ \E i \in 1..Len(state.pieces) :
       state.pieces[i].alive /\ willHazardHitSquare(state, state.pieces[i].pos)
  /\ countLegalMovesForSide(state, "W").count > 0
  /\ evaluateForBlack(state).score \in (- 3000)..3000
  /\ evaluateForBlack(withKingsDead(state, kingsOf(state, "W"))).score = 100 * 1000000

----------------------------------------------------------------------------
(* main.ts: chooseBlackAction in Hard mode (AI_DIFFICULTY is the constant  *)
(* "hard").  Candidates carry their position in the array built by         *)
(* legalActionsForBlack, which decides ties in the stable sorts.           *)

(* null *)
NoAction == [kind |-> "none", from |-> OffBoard, to |-> OffBoard, type |-> "P", cost |-> 0]

(* main.ts:457 declares lastBlackAction as null; no statement assigns it *)
lastBlackAction == NoAction

isExactReverse(prev, cur) ==
  /\ prev.kind = "move" /\ cur.kind = "move"
  /\ prev.from = cur.to /\ prev.to = cur.from

(* the dirs arrays handed to slideLegalDests, in their order *)
dirsInOrder(type) ==
  LET rook   == << [dr |-> -1, dc |-> 0], [dr |-> 1, dc |-> 0],
                   [dr |-> 0, dc |-> -1], [dr |-> 0, dc |-> 1] >>
      bishop == << [dr |-> -1, dc |-> -1], [dr |-> -1, dc |-> 1],
                   [dr |-> 1, dc |-> -1], [dr |-> 1, dc |-> 1] >>
  IN  CASE type = "R" -> rook
        [] type = "B" -> bishop
        [] OTHER -> rook \o bishop

sign(x) == IF x > 0 THEN 1 ELSE IF x < 0 THEN -1 ELSE 0

(* the place of `to` in the array a generator returns for piece p: a ray   *)
(* after the rays of the earlier directions and outwards along the ray;    *)
(* one ahead, two ahead, left diagonal, right diagonal for a pawn; the     *)
(* deltas of the knight and the two loops of the king, both row first      *)
destOrder(p, to) ==
  LET dr == to.r - p.pos.r
      dc == to.c - p.pos.c
  IN  CASE p.type \in {"R", "B", "Q"} ->
             COLS * (CHOOSE k \in 1..Len(dirsInOrder(p.type)) :
                       dirsInOrder(p.type)[k] = [dr |-> sign(dr), dc |-> sign(dc)])
             + Max(Abs(dr), Abs(dc))
        [] p.type = "P" -> IF dc = 0 THEN Abs(dr) ELSE 3 + sign(dc)
        [] OTHER -> 5 * (dr + 2) + (dc + 2)

typeOrder(t) ==
  CASE t = "Q" -> 0 [] t = "R" -> 1 [] t = "N" -> 2 [] t = "B" -> 3 [] OTHER -> 4

(* the index of a candidate in the array of legalActionsForBlack: moves    *)
(* piece by piece, then deploys type by type over the preferred squares    *)
enumIndex(st, a) ==
  IF a.kind = "move"
  THEN ROWS * COLS * pieceAt(st, a.from) + destOrder(st.pieces[pieceAt(st, a.from)], a.to)
  ELSE ROWS * COLS * (Len(st.pieces) + 1 + typeOrder(a.type))
       + Cardinality(sortedAhead(deploySquaresForBlack(st), a.to))

(* the moves gathered for White in the simulated position sim1 *)
whiteMoves(sim1) ==
  IF sim1.sideToMove # "W" THEN {}
  ELSE UNION { { MoveAction(sim1.pieces[i].pos, to) : to \in legalDestsOf(sim1, sim1.pieces[i]) } :
               i \in {j \in 1..Len(sim1.pieces) :
                        sim1.pieces[j].alive /\ sim1.pieces[j].side = "W"} }

(* evaluateForBlack(sim2) for one White reply *)
scoreAfterWhiteReply(m1, mv) ==
  evaluateForBlack(applyAction([m1 EXCEPT !.state = cloneState(m1.state)],
                               mv, "tickOnly", NoSpawn).m.state).score

minOf(S) == CHOOSE v \in S : \A u \in S : v <= u

(* F applied to v, with v computed once: `const x = v; ... F(x)` *)
With(v, F(_)) == CHOOSE r \in { F(x) : x \in {v} } : TRUE

(* the value given to a candidate of the pool: whiteBest, or the           *)
(* evaluation of sim1 when whiteMoves is empty                             *)
worstCaseAfter(m, a) ==
  With(scoreAfterBlackAction(m, a), LAMBDA m1 :
    With(whiteMoves(m1.state), LAMBDA replies :
      IF replies = {} THEN evaluateForBlack(m1.state).score
      ELSE minOf({ scoreAfterWhiteReply(m1, mv) : mv \in replies })))

(* scoredBlack before the sort: action, array index, one-ply score *)
scoredBlack(m) ==
  { [a |-> a, k |-> enumIndex(m.state, a),
     s |-> evaluateForBlack(scoreAfterBlackAction(m, a).state).score
           - (IF isExactReverse(lastBlackAction, a) THEN 35 ELSE 0)] :
    a \in legalActionsForBlack(m.state) }

(* the entries a stable sort by descending score puts ahead of x *)
aheadOf(scored, x) ==
  { y \in scored : y.s > x.s \/ (y.s = x.s /\ y.k < x.k) }

(* scoredBlack.sort(...).slice(0, blackN): the entries with their place i *)
blackPool(scored) ==
  { [i |-> Cardinality(aheadOf(scored, x)) + 1, a |-> x.a] :
      x \in { y \in scored : Cardinality(aheadOf(scored, y))
                                < Max(1, Min(AI_HARD_TOP_N, Cardinality(scored))) } }

poolItem(pool, i) == CHOOSE x \in pool : x.i = i

(* the loop over blackPool with bestS updated on >= instead of > *)
RECURSIVE hardLoopLastWins(_, _, _, _)
hardLoopLastWins(m, pool, i, best) ==
  IF i > Cardinality(pool) THEN best
  ELSE With(With(worstCaseAfter(m, poolItem(pool, i).a), LAMBDA w :
                   IF best.a = NoAction \/ w >= best.s
                   THEN [a |-> poolItem(pool, i).a, s |-> w] ELSE best),
            LAMBDA b : hardLoopLastWins(m, pool, i + 1, b))

(* the loop over blackPool; bestA = null stands for bestS = -Infinity *)
RECURSIVE hardLoop(_, _, _, _)
hardLoop(m, pool, i, best) ==
  IF i > Cardinality(pool) THEN best
  ELSE With(With(worstCaseAfter(m, poolItem(pool, i).a), LAMBDA w :
                   IF best.a = NoAction \/ w > best.s
                   THEN [a |-> poolItem(pool, i).a, s |-> w] ELSE best),
            LAMBDA b : hardLoop(m, pool, i + 1, b))

(* the action returned, and deployPieceCounter after the simulated deploys *)
chooseBlackAction(m) ==
  IF m.state.sideToMove # "B" \/ legalActionsForBlack(m.state) = {}
  THEN [a |-> NoAction, counter |-> m.deployPieceCounter]
  ELSE With(scoredBlack(m), LAMBDA scored :
         With(blackPool(scored), LAMBDA pool :
           [a |-> hardLoop(m, pool, 1, [a |-> NoAction, s |-> 0]).a,
            counter |-> m.deployPieceCounter
                        + Cardinality({x \in scored : x.a.kind = "deploy"})
                        + Cardinality({x \in pool : x.a.kind = "deploy"})]))

----------------------------------------------------------------------------
(* The chooser on a family of positions with Black to move: the black      *)
(* knight two steps from the start position's comet, about to be hit by    *)
(* it, or a knight's move from the white king; White with its knight and   *)
(* pawn or with the king alone; the black pawn and the black rook on or    *)
(* off the board; pools that pay for a pawn or a knight (Black) and for a  *)
(* queen (White) or for nothing.  The action returned is then applied as   *)
(* the AI timer applies it, in mode "none".                                *)
AiBoard(knight, whiteAlone, pawn, rook, mpB, mpW) ==
  [StartState EXCEPT
     !.sideToMove = "B",
     !.ply = StartPly + 1,
     !.pieces[5].pos = knight,
     !.pieces[6].alive = rook,
     !.pieces[7].alive = pawn,
     !.pieces[2].alive = ~whiteAlone,
     !.pieces[3].alive = ~whiteAlone,
     !.manufacturing = [W |-> mpW, B |-> mpB]]

AiKnightSquares == {StartPieces[5].pos, Sq(6, 12), Sq(7, 11)}

AiBoards ==
  { AiBoard(knight, whiteAlone, pawn, FALSE, 0, mpW) :
      knight \in AiKnightSquares, whiteAlone \in BOOLEAN, pawn \in BOOLEAN,
      mpW \in {0, DEPLOY_COSTS["Q"]} }
  \cup { AiBoard(knight, TRUE, FALSE, FALSE, DEPLOY_COSTS["P"], 0) :
           knight \in AiKnightSquares }
  \cup { AiBoard(StartPieces[5].pos, FALSE, FALSE, TRUE, DEPLOY_COSTS["N"], 0) }

InitAi ==
  /\ state \in AiBoards
  /\ deployPieceCounter = 0
  /\ hazardCounter = 6
  /\ pc = "idle"
  /\ pending = NoCall
  /\ ret = "none"
  /\ log = <<>>
  /\ phaseOwed = FALSE
  /\ pieceCounter = SetupSize
  /\ selected = NoSq
  /\ gameOver = ""
  /\ aiThinking = FALSE
  /\ aiToken = StartPly \div 2
  /\ timers = <<>>
  /\ last = NoHandler

(* const a = chooseBlackAction(state); if (!a) return; then the call of    *)
(* applyMove or applyDeploy with the fields of a                           *)
ChooseStep ==
  /\ pc = "idle"
  /\ \E c \in {chooseBlackAction(Machine)} :
         /\ deployPieceCounter' = c.counter
         /\ IF c.a = NoAction
            THEN /\ pending' = [NoCall EXCEPT !.op = "choose"]
                 /\ ret' = "noAction"
                 /\ pc' = "returned"
            ELSE /\ pending' = [NoCall EXCEPT !.op = c.a.kind,
                                              !.from = IF c.a.kind = "move" THEN c.a.from
                                                       ELSE OffBoard,
                                              !.to = c.a.to, !.type = c.a.type,
                                              !.cost = c.a.cost, !.sim = "none"]
                 /\ ret' = ret
                 /\ pc' = "called"
  /\ UNCHANGED <<state, hazardCounter, log, phaseOwed>>
  /\ UNCHANGED liveVars

NextAi == ChooseStep \/ ReturnMove \/ ReturnDeploy \/ Resume

SpecAi == InitAi /\ [][NextAi]_vars

----------------------------------------------------------------------------
(* What White may do in reply in a position: the moves of its generators,  *)
(* and, as the deploy panel of main.ts allows, a deploy of a type its pool *)
(* pays for onto a home-row square applyDeploy accepts.                    *)
whiteDeploys(sim1) ==
  IF sim1.sideToMove # "W" THEN {}
  ELSE { DeployAction(Sq(ROWS - 1, c), t, DEPLOY_COSTS[t]) :
           c \in { k \in 0..(COLS - 1) : deployRejection(sim1, Sq(ROWS - 1, k), 0) = "" },
           t \in pickDeployTypesFor(sim1.manufacturing.W) }

whiteReplies(sim1) == whiteMoves(sim1) \cup whiteDeploys(sim1)

(* the lowest evaluation White can reach in one reply of Replies after     *)
(* Black's action a, or the evaluation after a when there is no reply      *)
worstOver(m, a, Replies(_)) ==
  With(scoreAfterBlackAction(m, a), LAMBDA m1 :
    With({ scoreAfterWhiteReply(m1, mv) : mv \in Replies(m1.state) }, LAMBDA evals :
      IF evals = {} THEN evaluateForBlack(m1.state).score
      ELSE CHOOSE v \in evals : \A u \in evals : v <= u))

(* a is, among the AI_HARD_TOP_N first candidates in descending order of   *)
(* the one-ply score, one whose worst case over Replies is highest, and    *)
(* the first such in that order                                            *)
bestOfTopN(m, a, Replies(_)) ==
  With(scoredBlack(m), LAMBDA scored :
    With({ [x |-> x, w |-> worstOver(m, x.a, Replies)] :
             x \in { y \in scored : Cardinality(aheadOf(scored, y)) < AI_HARD_TOP_N } },
         LAMBDA top :
           \E r \in top :
             /\ r.x.a = a
             /\ \A o \in top : /\ o.w <= r.w
                               /\ o.w = r.w => o.x \notin aheadOf(scored, r.x)))

(* the action chooseBlackAction has just returned *)
chosenAction ==
  IF pending'.op = "move" THEN MoveAction(pending'.from, pending'.to)
  ELSE DeployAction(pending'.to, pending'.type, pending'.cost)

ChoiceMade == pc = "idle" /\ pc' = "called"

(* C31: in Hard mode chooseBlackAction returns, among the top 20           *)
(* candidates by one-ply score, the candidate whose minimum evaluation     *)
(* over all legal White replies (moves and deploys) is highest, the        *)
(* evaluation after the action itself when White has no reply, and the     *)
(* first such candidate in sorted order on ties.                           *)
C31_HardChoiceOverAllReplies ==
  [][ChoiceMade => bestOfTopN(Machine, chosenAction, whiteReplies)]_vars

(* C31 with White's replies taken as the moves of its pieces only: the     *)
(* top 20 by one-ply score, the highest minimum over White's moves, the    *)
(* evaluation after the action when White has no move, the first in        *)
(* sorted order on ties.                                                   *)
C31_HardChoiceOverWhiteMoves ==
  [][ChoiceMade => bestOfTopN(Machine, chosenAction, whiteMoves)]_vars

----------------------------------------------------------------------------
deployCandidates(st) == { a \in legalActionsForBlack(st) : a.kind = "deploy" }

(* C33: the deploys among the candidates of legalActionsForBlack are for   *)
(* types whose cost manufacturing.B covers, at that cost, onto squares of  *)
(* row 0 that hold no alive piece, no static hazard and no live flyer, and *)
(* there are at most 8 squares per type; when Black is not to move         *)
(* legalActionsForBlack returns no candidate and chooseBlackAction none.   *)
C33_DeployCandidatesBoundedAndValid ==
  pc = "idle" =>
    /\ \A a \in deployCandidates(state) :
         /\ a.type \in DOMAIN DEPLOY_COSTS
         /\ a.cost = DEPLOY_COSTS[a.type]
         /\ a.cost <= state.manufacturing.B
         /\ a.to.r = 0 /\ a.to.c \in 0..(state.cols - 1)
         /\ \A i \in 1..Len(state.pieces) :
              state.pieces[i].alive => state.pieces[i].pos # a.to
         /\ \A i \in 1..Len(state.statics) : state.statics[i].pos # a.to
         /\ \A k \in 1..Len(state.flyers) :
              state.flyers[k].alive => state.flyers[k].pos # a.to
    /\ \A t \in DOMAIN DEPLOY_COSTS :
         Cardinality({ a.to : a \in { d \in deployCandidates(state) : d.type = t } }) <= 8
    /\ state.sideToMove # "B" =>
         /\ legalActionsForBlack(state) = {}
         /\ chooseBlackAction(Machine).a = NoAction

(* Black is to move with a pool that pays for a knight but not for a rook, *)
(* a live flyer stands on row 0 next to the king's row-mates, and more     *)
(* than 8 squares of row 0 are free: the candidates hold 8 squares for     *)
(* each of the three affordable types                                      *)
C33_Witness ==
  /\ pc = "idle"
  /\ state.sideToMove = "B"
  /\ state.manufacturing.B \in DEPLOY_COSTS["N"]..(DEPLOY_COSTS["R"] - 1)
  /\ \E k \in 1..Len(state.flyers) : state.flyers[k].alive /\ state.flyers[k].pos.r = 0
  /\ Cardinality(deploySquaresForBlack(state)) > 8
  /\ Cardinality(deployCandidates(state)) = 3 * 8

----------------------------------------------------------------------------
(* the alive pieces of the side to move that stand next to the star *)
ownNextToStar(st) ==
  {i \in 1..Len(st.pieces) :
     /\ st.pieces[i].alive
     /\ st.pieces[i].side = st.sideToMove
     /\ nextToStar(st, st.pieces[i].pos)}

(* C34: an alive piece that is next to the star when its side's turn       *)
(* begins and is still next to the star after that side's accepted move or *)
(* deploy, whether or not it is the piece that acted, is dead when the     *)
(* call returns.  The burn step kills no piece that is away from the star  *)
(* after the action: in a call that runs no hazard operation, a piece of   *)
(* the acting side that was alive before the call and is dead and away     *)
(* from the star after it is the mover, lost on a comet or a static.       *)
C34_NoStayNextToStar ==
  [][LegalCall =>
       /\ \A i \in ownNextToStar(state) :
            nextToStar(state', state'.pieces[i].pos) => ~state'.pieces[i].alive
       /\ log' = <<>> =>
            \A i \in 1..Len(state.pieces) :
              ( /\ state.pieces[i].alive
                /\ state.pieces[i].side = state.sideToMove
                /\ ~state'.pieces[i].alive
                /\ ~nextToStar(state', state'.pieces[i].pos) )
              => ( /\ pending.op = "move"
                   /\ state.pieces[i].pos = pending.from
                   /\ ret' \in {"cometImpact", "staticSuicide"} )]_vars

(* White deployed a piece away from the star in a call that ran no hazard  *)
(* operation; the knight that stood next to the star when the turn began   *)
(* stayed there and is dead, the deployed piece is alive                   *)
C34_Witness ==
  /\ pc = "returned" /\ ret = "deployed" /\ log = <<>>
  /\ state.sideToMove = "B"
  /\ ~nextToStar(state, pending.to)
  /\ aliveAt(state, pending.to) # {}
  /\ \E i \in 1..Len(state.pieces) :
       /\ ~state.pieces[i].alive /\ state.pieces[i].side = "W"
       /\ state.pieces[i].pos = StartPieces[2].pos
       /\ nextToStar(state, state.pieces[i].pos)

----------------------------------------------------------------------------
(* C35: in every state reached after a completed operation every alive     *)
(* piece that is next to the star has heated = true.                       *)
C35_NextToStarIsHeated ==
  \A i \in 1..Len(state.pieces) :
    (state.pieces[i].alive /\ nextToStar(state, state.pieces[i].pos))
      => state.pieces[i].heated

(* a piece that was away from the star and not heated when the game of the *)
(* position began has been moved next to the star and is alive             *)
C35_Witness ==
  /\ last.name \in {"move", "aiTimer"}
  /\ state.ply >= StartPly
  /\ \E i \in 1..Len(StartPieces) :
       /\ ~StartPieces[i].heated
       /\ ~nextToStar(StartState, StartPieces[i].pos)
       /\ state.pieces[i].id = StartPieces[i].id
       /\ state.pieces[i].alive
       /\ nextToStar(state, state.pieces[i].pos)

----------------------------------------------------------------------------
(* C36: in every reachable state sideToMove is White exactly when ply is   *)
(* even and Black exactly when ply is odd.                                 *)
C36_SideMatchesPlyParity ==
  /\ state.sideToMove = "W" <=> state.ply % 2 = 0
  /\ state.sideToMove = "B" <=> state.ply % 2 = 1

(* three accepted calls after the start position, Black to move *)
C36_Witness ==
  /\ pc = "returned"
  /\ state.ply = StartPly + 3
  /\ state.sideToMove = "B"

----------------------------------------------------------------------------
(* C37: after every completed applyMove, applyDeploy, hazardTick and       *)
(* maybeSpawnHazards, every entry of state.flyers is alive, lies within    *)
(* the board and is not on a static hazard square.                         *)
C37_FlyersAliveOnBoardOffStatics ==
  \A i \in 1..Len(state.flyers) :
    /\ state.flyers[i].alive
    /\ inBounds(state.flyers[i].pos, state.rows, state.cols)
    /\ staticAt(state, state.flyers[i].pos) = 0

(* White moved onto the comet and Black's call then ran a hazard tick and *)
(* a spawn evaluation that pushed a flyer: the comet is gone, the flyers  *)
(* that moved and the new one are on the board                            *)
C37_Witness ==
  /\ pc = "returned" /\ log = <<"tick", "spawn">>
  /\ \A i \in 1..Len(state.flyers) : state.flyers[i].id # StartFlyers[1].id
  /\ \E i \in 1..Len(state.flyers) :
       \A j \in 1..Len(StartFlyers) : state.flyers[i].id # StartFlyers[j].id
  /\ \E i \in 1..Len(state.flyers) :
       /\ state.flyers[i].id = StartFlyers[2].id
       /\ state.flyers[i].pos = nextSquare(StartFlyers[2].pos, StartFlyers[2].dir)

----------------------------------------------------------------------------
(* C38: in every reachable state no alive piece stands on a static hazard  *)
(* square.                                                                 *)
C38_NoAlivePieceOnStatic ==
  \A i \in 1..Len(state.pieces) :
    state.pieces[i].alive => staticAt(state, state.pieces[i].pos) = 0

(* a deploy onto a static hazard was refused, after a piece had moved onto *)
(* a static hazard and lies dead on its square                             *)
C38_Witness ==
  /\ pc = "returned" /\ pending.op = "deploy"
  /\ staticAt(state, pending.to) # 0
  /\ ret = "staticThere"
  /\ \E i \in 1..Len(state.pieces) :
       ~state.pieces[i].alive /\ staticAt(state, state.pieces[i].pos) # 0

----------------------------------------------------------------------------
(* Rounds of a game that goes on: the two kings step to and fro on their   *)
(* home rows, every call is accepted, and each Black call in "full" mode   *)
(* runs hazardTick and then maybeSpawnHazards.  The positions start with   *)
(* flyers anywhere on their way, some of them on the border square they    *)
(* were spawned on.                                                        *)
MaxRounds == 22      \* rounds played after the start position
MaxSpawned == 1      \* flyers pushed while the rounds are played

RoundFlyerLists ==
  { StartFlyers,
    \* a comet with the whole of row 7 ahead, an asteroid with column 17 ahead
    << Flyer(3, "comet", 7, 0, "E"), Flyer(5, "asteroid", 9, 17, "N") >>,
    \* a comet with the whole of row 2 ahead, a comet with column 1 ahead
    << Flyer(4, "comet", 2, 19, "W"), Flyer(6, "comet", 0, 1, "S") >> }

RoundBoards == { [StartState EXCEPT !.flyers = fl] : fl \in RoundFlyerLists }

(* the squares a king steps between *)
RoundSquares(side) ==
  IF side = "W" THEN {StartPieces[1].pos, Sq(9, 9)} ELSE {StartPieces[4].pos, Sq(0, 9)}

RoundDraws ==
  IF hazardCounter - 6 < MaxSpawned
  THEN { NoSpawn, [NoSpawn EXCEPT !.cometH = TRUE, !.hRow = 7],
         [NoSpawn EXCEPT !.asteroidV = TRUE] }
  ELSE { NoSpawn }

InitRounds ==
  /\ state \in RoundBoards
  /\ deployPieceCounter = 0
  /\ hazardCounter = 6
  /\ pc = "idle"
  /\ pending = NoCall
  /\ ret = "none"
  /\ log = <<>>
  /\ phaseOwed = FALSE
  /\ pieceCounter = SetupSize
  /\ selected = NoSq
  /\ gameOver = ""
  /\ aiThinking = FALSE
  /\ aiToken = StartPly \div 2
  /\ timers = <<>>
  /\ last = NoHandler

(* applyMove(state, {from: the king's square, to: the other square}) *)
CallRoundMove ==
  /\ pc = "idle"
  /\ state.ply < StartPly + 2 * MaxRounds
  /\ \E from \in RoundSquares(state.sideToMove) \cap alivePositions(state),
        to \in RoundSquares(state.sideToMove) \ alivePositions(state) :
       pending' = [NoCall EXCEPT !.op = "move", !.from = from, !.to = to, !.sim = "full"]
  /\ pc' = "called"
  /\ UNCHANGED <<state, deployPieceCounter, hazardCounter, ret, log, phaseOwed>>
  /\ UNCHANGED liveVars

(* the body of applyMove runs to its return *)
ReturnRoundMove ==
  /\ pc = "called"
  /\ pending.op = "move"
  /\ \E d \in (IF state.sideToMove = "B" THEN RoundDraws ELSE {NoSpawn}) :
       \E r \in {applyMove(Machine, [from |-> pending.from, to |-> pending.to],
                           pending.sim, d)} :
         Complete(r)

NextRounds == CallRoundMove \/ ReturnRoundMove \/ Resume

(* Rounds keep being completed: a caller that can start a call or take    *)
(* control back does so, and a call that was started returns (applyMove   *)
(* is a synchronous function without loops over unbounded data).          *)
(* ReturnRoundMove is enabled exactly when pc = "called" and every step   *)
(* of it leaves that position, so its weak fairness is []<>(pc # "called") *)
SpecRounds ==
  /\ InitRounds /\ [][NextRounds]_vars
  /\ WF_vars(CallRoundMove) /\ WF_vars(Resume)
  /\ []<>(pc # "called")

(* hazard ticks after which a flyer has left the board at the latest *)
ticksLeft(st, f) ==
  CASE f.dir = "E" -> st.cols - f.pos.c
    [] f.dir = "W" -> f.pos.c + 1
    [] f.dir = "S" -> st.rows - f.pos.r
    [] f.dir = "N" -> f.pos.r + 1

flyerWithId(st, id) == {i \in 1..Len(st.flyers) : st.flyers[i].id = id}

FlyerIds == 1..(6 + MaxSpawned)

(* rounds enough are still to be played for a flyer to cross the board *)
RoundsLeftToCross ==
  state.ply + 2 * Max(state.rows, state.cols) <= StartPly + 2 * MaxRounds

RoundTickRan == pc = "called" /\ \E k \in 1..Len(log') : log'[k] = "tick"

(* C39: every flyer is eventually removed.  A flyer on the board has at    *)
(* most max(rows, cols) hazard ticks left; a hazard tick takes one of them *)
(* from every flyer it leaves on the board, and a flyer with one tick left *)
(* is gone after it; so a flyer is gone after at most max(rows, cols)      *)
(* further hazard ticks, and while rounds keep being completed every flyer *)
(* on the board is eventually off it.                                      *)
C39_EveryFlyerEventuallyRemoved ==
  /\ [](\A i \in 1..Len(state.flyers) :
          ticksLeft(state, state.flyers[i]) \in 1..Max(state.rows, state.cols))
  /\ [][RoundTickRan =>
          \A id \in FlyerIds :
            \A i \in flyerWithId(state, id) :
              /\ ticksLeft(state, state.flyers[i]) = 1 => flyerWithId(state', id) = {}
              /\ \A j \in flyerWithId(state', id) :
                   ticksLeft(state', state'.flyers[j]) =
                     ticksLeft(state, state.flyers[i]) - 1]_vars
  /\ \A id \in FlyerIds :
       (flyerWithId(state, id) # {} /\ RoundsLeftToCross) ~> (flyerWithId(state, id) = {})

(* the comet that started on the first square of row 7 is on its last      *)
(* square after max(rows, cols) - 1 hazard ticks, with one tick left       *)
C39_Witness ==
  /\ pc = "returned"
  /\ state.ply = StartPly + 2 * (Max(state.rows, state.cols) - 1)
  /\ \E i \in 1..Len(state.flyers) :
       /\ state.flyers[i].id = 3
       /\ state.flyers[i].pos = Sq(7, state.cols - 1)
       /\ ticksLeft(state, state.flyers[i]) = 1

----------------------------------------------------------------------------
(* The live game near its end.  White has just acted and the AI timer is   *)
(* waiting: the white knight attacks the black king, the black rook stands *)
(* next to the white king, and a comet is one tick away from the white     *)
(* king.  The human may click for either side (the click handler follows   *)
(* sideToMove), the timers fire, the key "r" resets.                       *)
EndPieces ==
  << Piece(5,  "W", "K", 9, 11, TRUE, FALSE),
     Piece(2,  "W", "N", 5, 8,  TRUE, TRUE),
     Piece(21, "B", "K", 7, 9,  TRUE, FALSE),
     Piece(17, "B", "R", 9, 10, TRUE, FALSE) >>

EndFlyers == << Flyer(3, "comet", 8, 11, "S") >>

EndState ==
  [StartState EXCEPT !.pieces = EndPieces, !.flyers = EndFlyers,
                     !.sideToMove = "B", !.ply = EndPly + 1,
                     !.manufacturing.B = 0]

InitEndgame ==
  /\ state = EndState
  /\ deployPieceCounter = 0
  /\ hazardCounter = 6
  /\ pc = "idle"
  /\ pending = NoCall
  /\ ret = "moved"
  /\ log = <<>>
  /\ phaseOwed = FALSE
  /\ pieceCounter = SetupSize
  /\ selected = NoSq
  /\ gameOver = ""
  /\ aiThinking = TRUE
  /\ aiToken = EndPly \div 2 + 1
  /\ timers = << [kind |-> "ai", token |-> EndPly \div 2 + 1, born |-> SetupSize] >>
  /\ last = [NoHandler EXCEPT !.name = "move"]

SpecEndgame == InitEndgame /\ [][NextLive]_vars

(* C40: once gameOver is set the live GameState is not changed again until *)
(* resetGame: no click handler acts, a waiting AI timer commits nothing    *)
(* and a waiting hazard timer does not run the hazard phase.               *)
C40_FrozenAfterGameOver ==
  [][(gameOver # "" /\ last'.name # "reset")
       => /\ state' = state
          /\ gameOver' = gameOver
          /\ last'.name \in {"aiTimer", "hazardTimer"}
          /\ ret' \in {"aiDiscarded", "phaseSkipped"}]_vars

(* the hazard phase killed the white king while the AI timer set by      *)
(* White's last action was waiting; that timer then fired and committed   *)
(* nothing                                                                *)
C40_Witness ==
  /\ gameOver = "B"
  /\ last.name = "aiTimer" /\ last.timer.token = aiToken
  /\ ret = "aiDiscarded"
  /\ state.sideToMove = "B"

====
